---------------------------- MODULE Spec2Model ----------------------------
(***************************************************************************)
(* A model of m6lexerkit: the sequential matcher engine (tokenize), the    *)
(* auxiliary string-like scanner (aux_strlike_m), the DFA engine           *)
(* (tokenize2) with its recognizer, the thread-local symbol interner and   *)
(* the source text model.                                                  *)
(*                                                                         *)
(* A Rust string is a sequence of characters; a character is a one-element *)
(* atom written as a TLA+ string.  Byte offsets are computed from the      *)
(* UTF-8 width of every character, so byte and character offsets differ    *)
(* on multi-byte text exactly as they do in the program.                   *)
(***************************************************************************)
EXTENDS Integers, Sequences, FiniteSets, TLC

(***************************************************************************)
(* Bounds of the model.                                                    *)
(***************************************************************************)
\* longest source text drawn exhaustively from SrcAlphabet
MaxLen == 3
\* longest text handed exhaustively to the string-like scanner
MaxScanLen == 4

(***************************************************************************)
(* Characters and strings.                                                 *)
(***************************************************************************)
\* a two-byte character (e-acute); every other character of the model is ASCII
EAcute == "U+00E9"

DQuote == "\""

BSlash == "\\"

Digits == {"1", "2", "3", "4"}

Operators == {"+"}

Utf8Len(c) == IF c = EAcute THEN 2 ELSE 1

RECURSIVE ByteLen(_)
ByteLen(s) == IF s = <<>> THEN 0 ELSE Utf8Len(Head(s)) + ByteLen(Tail(s))

Prefix(s, k) == SubSeq(s, 1, k)

Suffix(s, k) == SubSeq(s, k + 1, Len(s))

\* str::is_char_boundary
IsCharBoundary(s, b) == \E k \in 0..Len(s) : ByteLen(Prefix(s, k)) = b

\* number of characters in the first b bytes of s (b on a character boundary)
CharsBefore(s, b) == CHOOSE k \in 0..Len(s) : ByteLen(Prefix(s, k)) = b

\* &s[a..b] is defined (does not panic)
SliceOk(s, a, b) == a <= b /\ IsCharBoundary(s, a) /\ IsCharBoundary(s, b)

\* &s[a..b]
Slice(s, a, b) == SubSeq(s, CharsBefore(s, a) + 1, CharsBefore(s, b))

StartsWith(s, p) == Len(p) <= Len(s) /\ Prefix(s, Len(p)) = p

Max(S) == CHOOSE x \in S : \A y \in S : y <= x

Min2(a, b) == IF a <= b THEN a ELSE b

RECURSIVE SeqsUpTo(_, _)
SeqsUpTo(A, n) ==
    IF n = 0 THEN {<<>>}
    ELSE LET shorter == SeqsUpTo(A, n - 1)
         IN shorter \cup {Append(s, c) : s \in {x \in shorter : Len(x) = n - 1}, c \in A}

(***************************************************************************)
(* Symbol interner (string_interner behind the thread-local INTERNER).     *)
(* An interner is the sequence of the strings interned so far; a Symbol is *)
(* the position of its string.                                             *)
(***************************************************************************)
Interned(I, s) == \E i \in 1..Len(I) : I[i] = s

\* an interner that puts a new string in front of the ones it holds
Intern_front(I, s) == IF Interned(I, s) THEN I ELSE <<s>> \o I

\* the interner after get_or_intern(s)
Intern(I, s) == IF Interned(I, s) THEN I ELSE Append(I, s)

\* a Symbol taken from the size of the interner instead of the entry of s
str2sym_last(I, s) == Len(Intern(I, s))

\* the Symbol get_or_intern(s) returns
str2sym(I, s) == CHOOSE i \in 1..Len(Intern(I, s)) : Intern(I, s)[i] = s

\* resolve(sym) is Some
Resolves(I, sym) == sym \in 1..Len(I)

\* sym2str: resolve(sym).unwrap(); a panic is the string <<"!panic">>
sym2str(I, sym) == IF Resolves(I, sym) THEN I[sym] ELSE <<"!panic">>

(***************************************************************************)
(* Regular expressions (the regex crate is a given primitive).  A pattern  *)
(* is a concatenation of items; an item is a character class, possibly     *)
(* negated, taken once ("one"), at most once ("opt"), one or more times    *)
(* ("plus") or zero or more times ("star"), greedily and with              *)
(* backtracking, as the crate's leftmost-first semantics gives for such    *)
(* patterns.                                                               *)
(***************************************************************************)
Item(set, neg, rep) == [set |-> set, neg |-> neg, rep |-> rep]

ItemAccepts(it, c) == (c \in it.set) # it.neg

\* length of the longest run of characters accepted by it, from position pos
RECURSIVE RunLen(_, _, _)
RunLen(it, text, pos) ==
    IF pos < Len(text) /\ ItemAccepts(it, text[pos + 1])
    THEN 1 + RunLen(it, text, pos + 1)
    ELSE 0

\* match items[k..] against text at character position pos: the end position
\* of the match the regex engine reports, or -1
RECURSIVE MatchFrom(_, _, _, _)
MatchFrom(items, k, text, pos) ==
    IF k > Len(items) THEN pos
    ELSE LET it == items[k]
             run == RunLen(it, text, pos)
             lo == IF it.rep \in {"star", "opt"} THEN 0 ELSE 1
             hi == IF it.rep \in {"one", "opt"} THEN Min2(1, run) ELSE run
             cands == {n \in lo..hi : MatchFrom(items, k + 1, text, pos + n) # -1}
         IN IF cands = {} THEN -1
            ELSE MatchFrom(items, k + 1, text, pos + Max(cands))

\* Regex::captures on a pattern anchored with ^ : the length in characters of
\* group 0, or -1
AnchoredMatch(items, text) == MatchFrom(items, 1, text, 0)

\* Regex::is_match on an unanchored pattern: a match may start anywhere
IsMatch(pat, text) ==
    IF pat.anchored THEN AnchoredMatch(pat.items, text) # -1
    ELSE \E i \in 0..Len(text) : MatchFrom(pat.items, 1, text, i) # -1

(***************************************************************************)
(* Span, Token and the result of one matcher call.                         *)
(***************************************************************************)
Span(from, end) == [from |-> from, end |-> end]

\* Span::len
SpanLen(span) == span.end - span.from

\* Span::chars_count panics unless the span is a valid slice of source
SpanSliceOk(span, src) ==
    span.end <= ByteLen(src) /\ SliceOk(src, span.from, span.end)

\* a character count that counts the bytes of the span
chars_count_bytes(span, src) == span.end - span.from

\* Span::chars_count
chars_count(span, src) == Len(Slice(src, span.from, span.end))

Token(name, value, span) == [name |-> name, value |-> value, span |-> span]

NoToken == Token(0, 0, Span(0, 0))

UnrecognizedToken == "UnrecognizedToken"

UnrecognizedEscaped == "UnrecognizedEscaped"

UnexpectedPostfix == "UnexpectedPostfix"

ZeroLenToken == "ZeroLenToken"

\* Option<TokenMatchResult>, and a panic inside the matcher
MNone == [kind |-> "none", tok |-> NoToken, reason |-> ""]

MOk(tok) == [kind |-> "ok", tok |-> tok, reason |-> ""]

MErr(reason) == [kind |-> "err", tok |-> NoToken, reason |-> reason]

MPanic == [kind |-> "panic", tok |-> NoToken, reason |-> ""]

\* a matcher call returns its result and the calling thread's interner
Ret(res, I) == [res |-> res, interner |-> I]

(***************************************************************************)
(* TokenMatcher                                                            *)
(***************************************************************************)
\* TokenMatcher::new: the rule name is interned in the constructing thread
TokenMatcherNew(I, pat, tok_name) == [pat |-> pat, tok_name |-> str2sym(I, tok_name)]

\* fetch_tok with the span built from offset 0 instead of start
fetch_tok_nostart(I, tm, text, start) ==
    LET m == AnchoredMatch(tm.pat, text)
        bytes_len == ByteLen(Prefix(text, m))
        mat == Prefix(text, m)
    IN IF m = -1 THEN Ret(MNone, I)
       ELSE Ret(MOk(Token(tm.tok_name, str2sym(I, mat), Span(0, bytes_len))),
                Intern(I, mat))

\* TokenMatcher::fetch_tok
fetch_tok(I, tm, text, start) ==
    LET m == AnchoredMatch(tm.pat, text)
        bytes_len == ByteLen(Prefix(text, m))
        mat == Prefix(text, m)
    IN IF m = -1 THEN Ret(MNone, I)
       ELSE Ret(MOk(Token(tm.tok_name, str2sym(I, mat), Span(start, start + bytes_len))),
                Intern(I, mat))

(***************************************************************************)
(* aux_strlike_m                                                           *)
(***************************************************************************)
n_aux_tmp == <<"_", "_", "a", "u", "x", "_", "t", "m", "p">>

\* scanner state at loop entry: postfix_iter has already yielded the delimiter
ScanInit == [st |-> 0, val |-> <<>>, pi |-> 1, out |-> "run"]

\* the loop body resolving escapes: the escape character is not copied
StrlikeStep_unescape(s, c, postfix, escape_char) ==
    LET delimiter == postfix[1]
    IN CASE s.st = 0 ->
              [s EXCEPT !.st = IF c = escape_char THEN 1
                               ELSE IF c = delimiter THEN 2 ELSE 0,
                        !.val = IF c = escape_char THEN s.val ELSE Append(s.val, c)]
         [] s.st = 1 ->
              [s EXCEPT !.st = 0, !.val = Append(s.val, c)]
         [] OTHER ->
              IF s.pi < Len(postfix)
              THEN IF c # postfix[s.pi + 1]
                   THEN [s EXCEPT !.pi = s.pi + 1, !.out = "err"]
                   ELSE [s EXCEPT !.pi = s.pi + 1]
              ELSE [s EXCEPT !.out = "break"]

\* the loop body with the strict escape policy: only the delimiter and the
\* escape character may be escaped
StrlikeStep_strict(s, c, postfix, escape_char) ==
    LET delimiter == postfix[1]
    IN CASE s.st = 0 ->
              [s EXCEPT !.st = IF c = escape_char THEN 1
                               ELSE IF c = delimiter THEN 2 ELSE 0,
                        !.val = Append(s.val, c)]
         [] s.st = 1 ->
              IF c \in {delimiter, escape_char}
              THEN [s EXCEPT !.st = 0, !.val = Append(s.val, c)]
              ELSE [s EXCEPT !.out = "err"]
         [] OTHER ->
              IF s.pi < Len(postfix)
              THEN IF c # postfix[s.pi + 1]
                   THEN [s EXCEPT !.pi = s.pi + 1, !.out = "err"]
                   ELSE [s EXCEPT !.pi = s.pi + 1]
              ELSE [s EXCEPT !.out = "break"]

\* the loop body with a tail mode that accepts any character for the rest of
\* the postfix
StrlikeStep_anytail(s, c, postfix, escape_char) ==
    LET delimiter == postfix[1]
    IN CASE s.st = 0 ->
              [s EXCEPT !.st = IF c = escape_char THEN 1
                               ELSE IF c = delimiter THEN 2 ELSE 0,
                        !.val = Append(s.val, c)]
         [] s.st = 1 ->
              [s EXCEPT !.st = 0, !.val = Append(s.val, c)]
         [] OTHER ->
              IF s.pi < Len(postfix)
              THEN [s EXCEPT !.pi = s.pi + 1]
              ELSE [s EXCEPT !.out = "break"]

\* the loop body with the delimiter only peeked from postfix_iter: tail mode
\* compares with the postfix from its first character again
StrlikeStep_peek(s, c, postfix, escape_char) ==
    LET delimiter == postfix[1]
    IN CASE s.st = 0 ->
              [s EXCEPT !.st = IF c = escape_char THEN 1
                               ELSE IF c = delimiter THEN 2 ELSE 0,
                        !.val = Append(s.val, c)]
         [] s.st = 1 ->
              [s EXCEPT !.st = 0, !.val = Append(s.val, c)]
         [] OTHER ->
              IF s.pi <= Len(postfix)
              THEN IF c # postfix[s.pi]
                   THEN [s EXCEPT !.pi = s.pi + 1, !.out = "err"]
                   ELSE [s EXCEPT !.pi = s.pi + 1]
              ELSE [s EXCEPT !.out = "break"]

\* one iteration of the for loop on character c
StrlikeStep(s, c, postfix, escape_char) ==
    LET delimiter == postfix[1]
    IN CASE s.st = 0 ->
              [s EXCEPT !.st = IF c = escape_char THEN 1
                               ELSE IF c = delimiter THEN 2 ELSE 0,
                        !.val = Append(s.val, c)]
         [] s.st = 1 ->
              [s EXCEPT !.st = 0, !.val = Append(s.val, c)]
         [] OTHER ->
              IF s.pi < Len(postfix)
              THEN IF c # postfix[s.pi + 1]
                   THEN [s EXCEPT !.pi = s.pi + 1, !.out = "err"]
                   ELSE [s EXCEPT !.pi = s.pi + 1]
              ELSE [s EXCEPT !.out = "break"]

\* the whole for loop over the characters after the prefix
RECURSIVE StrlikeScan(_, _, _, _)
StrlikeScan(s, rest, postfix, escape_char) ==
    IF rest = <<>> \/ s.out # "run" THEN s
    ELSE StrlikeScan(StrlikeStep(s, Head(rest), postfix, escape_char),
                     Tail(rest), postfix, escape_char)

\* the code after the loop: pop the delimiter, build span and token
StrlikeFinish(I, s, from, prefix, postfix) ==
    IF s.out = "err" THEN Ret(MErr(UnexpectedPostfix), I)
    ELSE IF s.val = <<>> THEN Ret(MPanic, I)
    ELSE LET val == Prefix(s.val, Len(s.val) - 1)
             span_len == ByteLen(prefix) + ByteLen(val) + ByteLen(postfix)
             I1 == Intern(I, val)
         IN Ret(MOk(Token(str2sym(I1, n_aux_tmp), str2sym(I, val),
                          Span(from, from + span_len))),
                Intern(I1, n_aux_tmp))

aux_strlike_m(I, src, from, prefix, postfix, escape_char) ==
    IF ~StartsWith(src, prefix) THEN Ret(MNone, I)
    ELSE StrlikeFinish(I,
            StrlikeScan(ScanInit, Suffix(src, Len(prefix)), postfix, escape_char),
            from, prefix, postfix)

\* Token::rename applied to a matcher result, as dqstr_m, sqstr_m, cmd_m do
Rename(r, name) ==
    IF r.res.kind = "ok"
    THEN Ret(MOk([r.res.tok EXCEPT !.name = str2sym(r.interner, name)]),
             Intern(r.interner, name))
    ELSE r

\* a function matcher built on aux_strlike_m (dqstr_m and its siblings)
strlike_m(I, rule, src, from) ==
    Rename(aux_strlike_m(I, src, from, rule.prefix, rule.postfix, rule.escape_char),
           rule.name)

(***************************************************************************)
(* lit_regex_m                                                             *)
(***************************************************************************)
Slash == "/"

\* ALPHABET__: ('a'..='z').chain('A'..='Z')
ALPHABET == {"a", "b", "c", "d", "e", "f", "g", "h", "i", "j", "k", "l", "m",
             "n", "o", "p", "q", "r", "s", "t", "u", "v", "w", "x", "y", "z",
             "A", "B", "C", "D", "E", "F", "G", "H", "I", "J", "K", "L", "M",
             "N", "O", "P", "Q", "R", "S", "T", "U", "V", "W", "X", "Y", "Z"}

n_lit_regex == <<"l", "i", "t", "_", "r", "e", "g", "e", "x">>

\* the closure of lit_regex_m absorbing the next character whatever it is
lit_regex_post_anychar(r, src, from) ==
    IF r.res.kind \in {"none", "panic"} THEN r
    ELSE IF r.res.kind = "err" THEN Ret(MPanic, r.interner)
    ELSE LET tok == r.res.tok
             body == sym2str(r.interner, tok.value)
             tokv == <<Slash>> \o body \o <<Slash>>
             len == SpanLen(tok.span)
         IN IF body = <<>> THEN Ret(MNone, r.interner)
            ELSE IF ~(len <= ByteLen(src) /\ IsCharBoundary(src, len))
            THEN Ret(MPanic, r.interner)
            ELSE LET rest == Slice(src, len, ByteLen(src))
                     absorb == rest # <<>>
                     value == IF absorb THEN Append(tokv, Head(rest)) ELSE tokv
                     span == IF absorb
                             THEN Span(from, from + len + Utf8Len(Head(rest)))
                             ELSE tok.span
                     I1 == Intern(r.interner, value)
                 IN Ret(MOk(Token(str2sym(I1, n_lit_regex),
                                  str2sym(r.interner, value), span)),
                        Intern(I1, n_lit_regex))

\* the closure lit_regex_m applies to the result r of aux_strlike_m
lit_regex_post(r, src, from) ==
    IF r.res.kind \in {"none", "panic"} THEN r
    ELSE IF r.res.kind = "err" THEN Ret(MPanic, r.interner)
    ELSE LET tok == r.res.tok
             body == sym2str(r.interner, tok.value)
             tokv == <<Slash>> \o body \o <<Slash>>
             len == SpanLen(tok.span)
         IN IF body = <<>> THEN Ret(MNone, r.interner)
            ELSE IF ~(len <= ByteLen(src) /\ IsCharBoundary(src, len))
            THEN Ret(MPanic, r.interner)
            ELSE LET rest == Slice(src, len, ByteLen(src))
                     absorb == rest # <<>> /\ Head(rest) \in ALPHABET
                     value == IF absorb THEN Append(tokv, Head(rest)) ELSE tokv
                     span == IF absorb
                             THEN Span(from, from + len + Utf8Len(Head(rest)))
                             ELSE tok.span
                     I1 == Intern(r.interner, value)
                 IN Ret(MOk(Token(str2sym(I1, n_lit_regex),
                                  str2sym(r.interner, value), span)),
                        Intern(I1, n_lit_regex))

lit_regex_m(I, src, from) ==
    lit_regex_post(aux_strlike_m(I, src, from, <<Slash>>, <<Slash>>, BSlash), src, from)

(***************************************************************************)
(* Rule tables handed to make_token_matcher_rules!.  A rule with a pattern *)
(* becomes a lazily compiled TokenMatcher for ^(pattern); a rule without   *)
(* one names a matcher function, here a wrapper of aux_strlike_m.          *)
(***************************************************************************)
RegexRule(name, items) ==
    [kind |-> "regex", name |-> name, pat |-> items,
     prefix |-> <<>>, postfix |-> <<>>, escape_char |-> ""]

FnRule(name, prefix, postfix, escape_char) ==
    [kind |-> "fn", name |-> name, pat |-> <<>>,
     prefix |-> prefix, postfix |-> postfix, escape_char |-> escape_char]

n_num == <<"n", "u", "m">>

n_op == <<"o", "p">>

n_inc == <<"i", "n", "c">>

n_add == <<"a", "d", "d">>

n_word == <<"w", "o", "r", "d">>

n_dqstr == <<"d", "q", "s", "t", "r">>

n_ddqstr == <<"d", "d", "q", "s", "t", "r">>

\* num => "[0-9]+"
num_rule == RegexRule(n_num, <<Item(Digits, FALSE, "plus")>>)

\* op => r"\+"
op_rule == RegexRule(n_op, <<Item({"+"}, FALSE, "one")>>)

\* inc => r"\+\+"
inc_rule == RegexRule(n_inc, <<Item({"+"}, FALSE, "one"), Item({"+"}, FALSE, "one")>>)

\* add => r"\+"
add_rule == RegexRule(n_add, <<Item({"+"}, FALSE, "one")>>)

\* word => "a*", a pattern that also matches the empty string
word_rule == RegexRule(n_word, <<Item({"a"}, FALSE, "star")>>)

\* dqstr: aux_strlike_m(source, from, "\"", "\"", '\\')
dqstr_rule == FnRule(n_dqstr, <<DQuote>>, <<DQuote>>, BSlash)

\* a matcher function with a two-character postfix:
\* aux_strlike_m(source, from, "\"", "\"\"", '\\')
ddqstr_rule == FnRule(n_ddqstr, <<DQuote>>, <<DQuote, DQuote>>, BSlash)

(***************************************************************************)
(* heredoc_m.  HEREDOC_2_REG_EH is                                         *)
(*   ^(<<<|<<-|<<|<-)[[:blank:]]*(.+)([[:blank:]]+.*\n|\n)([\s|\S]*?)\n\2   *)
(* run by a backtracking engine: the alternatives of group 1 are tried in  *)
(* order, the blanks and group 2 are greedy, group 4 is lazy, and the      *)
(* match reported is the first one found in that order.                    *)
(***************************************************************************)
Newline == "\n"

\* [[:blank:]]
Blank == {" ", "\t"}

\* the alternatives of group 1, in order
HeredocOpeners ==
    << <<"<", "<", "<">>, <<"<", "<", "-">>, <<"<", "<">>, <<"<", "-">> >>

\* position of the first newline of src after character position p, or 0
RECURSIVE NextNewline(_, _)
NextNewline(src, p) ==
    IF p >= Len(src) THEN 0
    ELSE IF src[p + 1] = Newline THEN p + 1
    ELSE NextNewline(src, p + 1)

\* group 3 at position p: a newline, or blanks and the rest of the line; the
\* position after it, or 0
HeredocGroup3(src, p) ==
    IF p < Len(src) /\ src[p + 1] \in Blank \cup {Newline}
    THEN NextNewline(src, p)
    ELSE 0

\* the lengths y group 4 can take at position p so that \n and the text of
\* group 2 follow
HeredocGroup4(src, p, tag) ==
    {y \in 0..(Len(src) - p) :
        /\ p + y + 1 + Len(tag) <= Len(src)
        /\ src[p + y + 1] = Newline
        /\ SubSeq(src, p + y + 2, p + y + 1 + Len(tag)) = tag}

\* the choices <<o, b, g>> of opener, blanks and length of group 2 under
\* which the whole pattern matches
HeredocCands(src) ==
    {c \in (1..Len(HeredocOpeners)) \X (0..Len(src)) \X (1..Len(src)) :
        LET lo == Len(HeredocOpeners[c[1]])
            p2 == lo + c[2]
            p3 == p2 + c[3]
        IN /\ StartsWith(src, HeredocOpeners[c[1]])
           /\ p3 <= Len(src)
           /\ \A i \in (lo + 1)..p2 : src[i] \in Blank
           /\ \A i \in (p2 + 1)..p3 : src[i] # Newline
           /\ HeredocGroup3(src, p3) # 0
           /\ HeredocGroup4(src, HeredocGroup3(src, p3), SubSeq(src, p2 + 1, p3)) # {}}

\* c is tried before d by the engine
HeredocBefore(c, d) ==
    \/ c[1] < d[1]
    \/ c[1] = d[1] /\ c[2] > d[2]
    \/ c[1] = d[1] /\ c[2] = d[2] /\ c[3] >= d[3]

\* the choice the engine finds first
HeredocFirst(cands) == CHOOSE x \in cands : \A d \in cands : HeredocBefore(x, d)

\* the shortest group 4
HeredocLazy(ys) == CHOOSE v \in ys : \A w \in ys : v <= w

\* the captures when group 2 is tag, group 4 starts after position p4 and has
\* length y
HeredocGroups(src, p4, tag, y) ==
    [some |-> TRUE, end0 |-> p4 + y + 1 + Len(tag),
     g4 |-> SubSeq(src, p4 + 1, p4 + y)]

\* the captures when group 2 is the g characters after position p2
HeredocAt(src, p2, g) ==
    HeredocGroups(src, HeredocGroup3(src, p2 + g), SubSeq(src, p2 + 1, p2 + g),
                  HeredocLazy(HeredocGroup4(src, HeredocGroup3(src, p2 + g),
                                            SubSeq(src, p2 + 1, p2 + g))))

\* the captures of the match the engine reports among cands
HeredocReported(src, cands) ==
    IF cands = {} THEN [some |-> FALSE, end0 |-> 0, g4 |-> <<>>]
    ELSE HeredocAt(src,
                   Len(HeredocOpeners[HeredocFirst(cands)[1]])
                       + HeredocFirst(cands)[2],
                   HeredocFirst(cands)[3])

\* HEREDOC_2_REG_EH.captures(source): group 0 and group 4 as character ranges
HeredocCaptures(src) == HeredocReported(src, HeredocCands(src))

\* the token heredoc_m makes of the captures: value is the text interned as
\* the token's value
HeredocToken(I, src, from, cap, value) ==
    IF ~cap.some THEN Ret(MNone, I)
    ELSE Ret(MOk(Token(str2sym(Intern(I, value), n_aux_tmp), str2sym(I, value),
                       Span(from, from + ByteLen(Prefix(src, cap.end0))))),
             Intern(Intern(I, value), n_aux_tmp))

\* heredoc_m taking the whole match as the value
heredoc_m_whole(I, src, from) ==
    HeredocToken(I, src, from, HeredocCaptures(src),
                 Prefix(src, HeredocCaptures(src).end0))

heredoc_m(I, src, from) ==
    HeredocToken(I, src, from, HeredocCaptures(src), HeredocCaptures(src).g4)

n_heredoc == <<"h", "e", "r", "e", "d", "o", "c">>

\* heredoc: the matcher function heredoc_m
heredoc_rule ==
    [kind |-> "heredoc", name |-> n_heredoc, pat |-> <<>>,
     prefix |-> <<>>, postfix |-> <<>>, escape_char |-> ""]

n_slash_line_comment ==
    <<"s", "l", "a", "s", "h", "_", "l", "i", "n", "e", "_",
      "c", "o", "m", "m", "e", "n", "t">>

\* lit_regex: the matcher function lit_regex_m
lit_regex_rule ==
    [kind |-> "lit_regex", name |-> n_lit_regex, pat |-> <<>>,
     prefix |-> <<Slash>>, postfix |-> <<Slash>>, escape_char |-> BSlash]

\* slash_line_comment => r"//.*"
slash_line_comment_rule ==
    RegexRule(n_slash_line_comment,
              <<Item({Slash}, FALSE, "one"), Item({Slash}, FALSE, "one"),
                Item({"\n"}, TRUE, "star")>>)

\* a matcher function of a rule without a pattern
fn_m(I, rule, src, from) ==
    IF rule.kind = "lit_regex" THEN lit_regex_m(I, src, from)
    ELSE IF rule.kind = "heredoc" THEN heredoc_m(I, src, from)
    ELSE strlike_m(I, rule, src, from)

\* the rule tables of the model
DigitOpRules == <<num_rule, op_rule>>

PriorityRules == <<num_rule, inc_rule, add_rule>>

StringRules == <<num_rule, dqstr_rule, op_rule>>

ZeroLenRules == <<num_rule, word_rule, op_rule>>

PostfixRules == <<num_rule, ddqstr_rule, dqstr_rule, op_rule>>

RegexLitRules == <<num_rule, lit_regex_rule, slash_line_comment_rule>>

\* the pattern of a literal text: one item per character
Lit(text) == [i \in 1..Len(text) |-> Item({text[i]}, FALSE, "one")]

\* prelude::MATCHERS: the rules of the prelude in the order of the macro call
PreludeRules ==
    <<RegexRule(<<"s", "h", "a", "r", "p", "_", "l", "i", "n", "e", "_",
                  "c", "o", "m", "m", "e", "n", "t">>,
                <<Item({"#"}, FALSE, "one"), Item({"\n"}, TRUE, "star")>>),
      RegexRule(<<"s", "p">>, <<Item(Blank, FALSE, "plus")>>),
      RegexRule(<<"n", "e", "w", "l", "i", "n", "e">>,
                <<Item({"\n"}, FALSE, "one"), Item({"\r"}, FALSE, "opt")>>),
      RegexRule(<<"l", "p", "a", "r", "e", "n">>, Lit(<<"(">>)),
      RegexRule(<<"r", "p", "a", "r", "e", "n">>, Lit(<<")">>)),
      RegexRule(<<"l", "b", "r", "a", "c", "k", "e", "t">>, Lit(<<"[">>)),
      RegexRule(<<"r", "b", "r", "a", "c", "k", "e", "t">>, Lit(<<"]">>)),
      RegexRule(<<"l", "b", "r", "a", "c", "e">>, Lit(<<"{">>)),
      RegexRule(<<"r", "b", "r", "a", "c", "e">>, Lit(<<"}">>)),
      RegexRule(<<"c", "o", "l", "o", "n">>, Lit(<<":">>)),
      RegexRule(<<"q", "u", "e", "s", "t", "i", "o", "n">>, Lit(<<"?">>)),
      RegexRule(<<"r", "a", "r", "r", "o", "w">>, Lit(<<"-", ">">>)),
      RegexRule(<<"r", "d", "a", "r", "r", "o", "w">>, Lit(<<"=", ">">>)),
      RegexRule(<<"s", "e", "m", "i">>, Lit(<<";">>)),
      RegexRule(<<"c", "o", "m", "m", "a">>, Lit(<<",">>)),
      RegexRule(<<"a", "s", "s", "i", "g", "n">>, Lit(<<"=">>)),
      RegexRule(n_inc, Lit(<<"+", "+">>)),
      RegexRule(<<"d", "e", "c">>, Lit(<<"-", "-">>)),
      RegexRule(<<"n", "o", "t">>, Lit(<<"!">>)),
      RegexRule(<<"s", "u", "b">>, Lit(<<"-">>)),
      RegexRule(n_add, <<Item({"+"}, FALSE, "one"), Item({"+"}, TRUE, "one")>>),
      RegexRule(<<"m", "u", "l">>, Lit(<<"*">>)),
      RegexRule(<<"d", "i", "v">>, Lit(<<"/">>)),
      RegexRule(<<"d", "o", "t">>, Lit(<<".">>)),
      RegexRule(<<"g", "e">>, Lit(<<">", "=">>)),
      RegexRule(<<"l", "e">>, Lit(<<"<", "=">>)),
      RegexRule(<<"l", "t">>, Lit(<<"<">>)),
      RegexRule(<<"g", "t">>, Lit(<<">">>)),
      RegexRule(<<"n", "e", "q">>, Lit(<<"!", "=">>)),
      RegexRule(<<"e", "q">>, Lit(<<"=", "=">>)),
      RegexRule(<<"p", "e", "r", "c", "e", "n", "t">>, Lit(<<"%">>)),
      RegexRule(<<"a", "n", "d">>, Lit(<<"&", "&">>)),
      RegexRule(<<"o", "r">>, Lit(<<"|", "|">>))>>

MatcherLists ==
    {DigitOpRules, PriorityRules, StringRules, ZeroLenRules, PostfixRules,
     RegexLitRules, PreludeRules}

\* a lazy_static TokenMatcher before its first use
Uncompiled == [init |-> FALSE, pat |-> <<>>, tok_name |-> 0]

(***************************************************************************)
(* Source texts.                                                           *)
(***************************************************************************)
SrcAlphabet == {"1", "+", "a", DQuote, BSlash, EAcute, "\n"}

\* 12+34
Src12Plus34 == <<"1", "2", "+", "3", "4">>

\* 3?
Src3Question == <<"3", "?">>

\* ++
SrcPlusPlus == <<"+", "+">>

\* "ab\"c"
SrcQuoted == <<DQuote, "a", "b", BSlash, DQuote, "c", DQuote>>

\* 1""a
SrcBadPostfix == <<"1", DQuote, DQuote, "a">>

\* //a
SrcSlashComment == <<Slash, Slash, "a">>

\* /1/a+
SrcRegexFlag == <<Slash, "1", Slash, "a", "+">>

\* //\u{e9}\n : a comment with a two-byte character, then a newline
SrcCommentAccent == <<Slash, Slash, EAcute, "\n">>

Scenarios ==
    {Src12Plus34, Src3Question, SrcPlusPlus, SrcQuoted, SrcBadPostfix,
     SrcSlashComment, SrcRegexFlag, SrcCommentAccent}

Sources == SeqsUpTo(SrcAlphabet, MaxLen) \cup Scenarios

\* longest source scanned with the rules of the prelude
MaxOpLen == 2

OpAlphabet == {"=", "!", "<", ">", "-", "+"}

\* `= =` and a newline
SrcSpacedAssign == <<"=", " ", "=", "\n">>

\* `#=`, a newline, `!`
SrcSharpComment == <<"#", "=", "\n", "!">>

PreludeSources == SeqsUpTo(OpAlphabet, MaxOpLen) \cup {SrcSpacedAssign, SrcSharpComment}

\* the sources a rule table is run on
SourcesFor(rules) == IF rules = PreludeRules THEN PreludeSources ELSE Sources

(***************************************************************************)
(* Source text model: SrcFileInfo and SrcLoc.                              *)
(***************************************************************************)
\* build_lines: lines[x] is the number of characters before line x
RECURSIVE BuildLinesFrom(_, _, _)
BuildLinesFrom(lines, total, rest) ==
    IF rest = <<>> THEN lines
    ELSE BuildLinesFrom(IF Head(rest) = "\n" THEN Append(lines, total + 1) ELSE lines,
                        total + 1, Tail(rest))

build_lines(srcstr) == BuildLinesFrom(<<0>>, 0, srcstr)

\* build_blines: the same table counted in bytes
RECURSIVE BuildBlinesFrom(_, _, _)
BuildBlinesFrom(lines, total, rest) ==
    IF rest = <<>> THEN lines
    ELSE BuildBlinesFrom(IF Head(rest) = "\n"
                         THEN Append(lines, total + Utf8Len(Head(rest)))
                         ELSE lines,
                         total + Utf8Len(Head(rest)), Tail(rest))

build_blines(srcstr) == BuildBlinesFrom(<<0>>, 0, srcstr)

\* slice::binary_search on a strictly ascending table: Ok(index) or
\* Err(insertion point), indices counted from 0
binary_search(v, x) ==
    IF \E i \in 1..Len(v) : v[i] = x
    THEN [ok |-> TRUE, idx |-> (CHOOSE i \in 1..Len(v) : v[i] = x) - 1]
    ELSE [ok |-> FALSE, idx |-> Cardinality({i \in 1..Len(v) : v[i] < x})]

SrcLoc(ln, col) == [ln |-> ln, col |-> col]

\* offset2srcloc with a 0-based column inside a line
offset2srcloc_col0(srcstr, offset) ==
    LET lines == build_lines(srcstr)
        r == binary_search(lines, offset)
    IN IF r.ok THEN SrcLoc(r.idx + 1, 1)
       ELSE SrcLoc(r.idx, offset - lines[r.idx])

\* offset2srcloc whose Ok arm reports the index found as the line
offset2srcloc_lnfound(srcstr, offset) ==
    LET lines == build_lines(srcstr)
        r == binary_search(lines, offset)
    IN IF r.ok THEN SrcLoc(r.idx, 1)
       ELSE SrcLoc(r.idx, offset - lines[r.idx] + 1)

\* SrcFileInfo::offset2srcloc (lines[k] of the code is lines[k + 1] here)
offset2srcloc(srcstr, offset) ==
    LET lines == build_lines(srcstr)
        r == binary_search(lines, offset)
    IN IF r.ok THEN SrcLoc(r.idx + 1, 1)
       ELSE SrcLoc(r.idx, offset - lines[r.idx] + 1)

\* boffset2srcloc with a column that counts bytes
boffset2srcloc_bytes(srcstr, offset) ==
    LET blines == build_blines(srcstr)
        r == binary_search(blines, offset)
    IN IF r.ok THEN [panic |-> FALSE, loc |-> SrcLoc(r.idx + 1, 1)]
       ELSE [panic |-> FALSE, loc |-> SrcLoc(r.idx, offset - blines[r.idx] + 1)]

\* SrcFileInfo::boffset2srcloc: the slice srcstr[blines[idx - 1]..offset]
\* panics when offset is past the end or inside a character
boffset2srcloc(srcstr, offset) ==
    LET blines == build_blines(srcstr)
        r == binary_search(blines, offset)
    IN IF r.ok THEN [panic |-> FALSE, loc |-> SrcLoc(r.idx + 1, 1)]
       ELSE IF offset > ByteLen(srcstr) \/ ~IsCharBoundary(srcstr, offset)
       THEN [panic |-> TRUE, loc |-> SrcLoc(0, 0)]
       ELSE [panic |-> FALSE,
             loc |-> SrcLoc(r.idx, Len(Slice(srcstr, blines[r.idx], offset)) + 1)]

\* Option<&str> of linestr, and a panic inside it
NoLine == [kind |-> "none", str |-> <<>>]

SomeLine(str) == [kind |-> "some", str |-> str]

LinePanic == [kind |-> "panic", str |-> <<>>]

\* linestr that stops before the newline of the line
linestr_trimmed(srcstr, cur) ==
    LET blines == build_blines(srcstr)
        b == boffset2srcloc(srcstr, cur)
        ln == b.loc.ln
    IN IF b.panic THEN LinePanic
       ELSE IF ln - 1 >= Len(blines) THEN NoLine
       ELSE IF ln = Len(blines)
       THEN SomeLine(Slice(srcstr, blines[ln], ByteLen(srcstr)))
       ELSE SomeLine(Slice(srcstr, blines[ln], blines[ln + 1] - 1))

\* SrcFileInfo::linestr: cur is a byte offset
linestr(srcstr, cur) ==
    LET blines == build_blines(srcstr)
        b == boffset2srcloc(srcstr, cur)
        ln == b.loc.ln
    IN IF b.panic THEN LinePanic
       ELSE IF ln - 1 >= Len(blines) THEN NoLine
       ELSE IF ln = Len(blines)
       THEN SomeLine(Slice(srcstr, blines[ln], ByteLen(srcstr)))
       ELSE SomeLine(Slice(srcstr, blines[ln], blines[ln + 1]))

(***************************************************************************)
(* impl Display for TokenizeError.  The rendered text is a sequence of     *)
(* characters; the reason, the numbers and the fixed words are single      *)
(* elements of it.  The path of a SrcFileInfo made by from_str is empty.   *)
(***************************************************************************)
RECURSIVE Repeat(_, _)
Repeat(c, n) == IF n <= 0 THEN <<>> ELSE <<c>> \o Repeat(c, n - 1)

NoDisplay == [kind |-> "none", text |-> <<>>]

\* self.src.linestr(self.start): start is the character offset chars_pos
LineOfError(srcstr, start) == linestr(srcstr, start)

\* writeln!(f, "{linestr}")
WriteLine(line) == line \o <<"\n">>

\* fmt: unwrap panics on None, linestr.len() - loc.col panics on underflow
Display(srcstr, err) ==
    LET ls == LineOfError(srcstr, err.start)
        loc == offset2srcloc(srcstr, err.start)
        rem_len == ByteLen(ls.str) - loc.col
    IN IF ls.kind # "some" \/ rem_len < 0
       THEN [kind |-> "panic", text |-> <<>>]
       ELSE [kind |-> "ok",
             text |-> <<"\n", "\n", err.reason, ":", "\n", "\n">>
                      \o WriteLine(ls.str)
                      \o Repeat(" ", loc.col - 1) \o <<"^">> \o Repeat("-", rem_len)
                      \o <<"\n", "--> ", ":", ToString(loc.ln), ":", ToString(loc.col),
                            "\n", "\n">>]

(***************************************************************************)
(* DFA engine: transition tables, LexDFA, TokenRecognizer.                 *)
(***************************************************************************)
n_Entry == <<"E", "n", "t", "r", "y">>

n_NUM == <<"N", "U", "M">>

n_OP == <<"O", "P">>

\* one line `matcher | next state, flag` of lexdfamap!
Trans(m, nxt, flag) == [m |-> m, nxt |-> nxt, flag |-> flag]

\* one block `state => { ... }` of lexdfamap!
StateDecl(cur, trans) == [cur |-> cur, trans |-> trans]

\* the digit and operator table: a number or an operator run ends where a
\* character of the other class begins
DigitOpTable ==
    << StateDecl(n_Entry, << Trans(Digits, n_NUM, FALSE), Trans(Operators, n_OP, FALSE) >>),
       StateDecl(n_NUM,   << Trans(Digits, n_NUM, FALSE), Trans(Operators, n_OP, TRUE) >>),
       StateDecl(n_OP,    << Trans(Operators, n_OP, FALSE), Trans(Digits, n_NUM, TRUE) >>) >>

\* one line `name => pattern` of token_recognizer!
PatDecl(name, anchored, items) == [name |-> name, anchored |-> anchored, items |-> items]

\* token_recognizer![ 2 | OP => r"\+", NUM => "[0-9]+" |]
DigitOpRecognizer ==
    [lookhead |-> 2,
     pats |-> << PatDecl(n_OP, FALSE, <<Item(Operators, FALSE, "one")>>),
                 PatDecl(n_NUM, FALSE, <<Item(Digits, FALSE, "plus")>>) >>]

n_NUM_HEAD == <<"N", "U", "M", "_", "H", "E", "A", "D">>

n_lit_int == <<"l", "i", "t", "_", "i", "n", "t">>

\* numsign => "[+|-]"
NumSign == {"+", "|", "-"}

\* a table whose predicates overlap: in Entry a + is a numsign before it is an
\* op, in OP it is an op before it is a numsign
SignedTable ==
    << StateDecl(n_Entry,    << Trans(Digits, n_NUM, FALSE),
                                Trans(NumSign, n_NUM_HEAD, FALSE),
                                Trans(Operators, n_OP, FALSE) >>),
       StateDecl(n_OP,       << Trans(Operators, n_OP, FALSE),
                                Trans(Digits, n_NUM, TRUE),
                                Trans(NumSign, n_NUM_HEAD, TRUE) >>),
       StateDecl(n_NUM_HEAD, << Trans(Digits, n_NUM, FALSE),
                                Trans(Operators, n_OP, TRUE) >>),
       StateDecl(n_NUM,      << Trans(Digits, n_NUM, FALSE),
                                Trans(Operators, n_OP, TRUE) >>) >>

\* token_recognizer![ 2 | lit_int => r"[+|-]?[0-9]+", inc => r"\+\+", OP => r"\+" |]
SignedRecognizer ==
    [lookhead |-> 2,
     pats |-> << PatDecl(n_lit_int, FALSE, <<Item(NumSign, FALSE, "opt"),
                                             Item(Digits, FALSE, "plus")>>),
                 PatDecl(n_inc, FALSE, <<Item({"+"}, FALSE, "one"),
                                         Item({"+"}, FALSE, "one")>>),
                 PatDecl(n_OP, FALSE, <<Item(Operators, FALSE, "one")>>) >>]

\* an incomplete table: NUM has no transition for an operator, and OP, a
\* next state of Entry, has no block at all
PartialTable ==
    << StateDecl(n_Entry, << Trans(Digits, n_NUM, FALSE), Trans(Operators, n_OP, FALSE) >>),
       StateDecl(n_NUM,   << Trans(Digits, n_NUM, FALSE) >>) >>

DigitOpConfig == [table |-> DigitOpTable, rec |-> DigitOpRecognizer]

PartialConfig == [table |-> PartialTable, rec |-> DigitOpRecognizer]

SignedConfig == [table |-> SignedTable, rec |-> SignedRecognizer]

\* a table that flags every first character of a token, that of the source
\* included: Entry is written like the state after a finished token
EagerTable ==
    << StateDecl(n_Entry, << Trans(Digits, n_NUM, TRUE), Trans(Operators, n_OP, TRUE) >>),
       StateDecl(n_NUM,   << Trans(Digits, n_NUM, FALSE), Trans(Operators, n_OP, TRUE) >>),
       StateDecl(n_OP,    << Trans(Operators, n_OP, FALSE), Trans(Digits, n_NUM, TRUE) >>) >>

\* token_recognizer![ 2 | OP => r"\+", NUM => "[0-9]*" |]
EagerRecognizer ==
    [lookhead |-> 2,
     pats |-> << PatDecl(n_OP, FALSE, <<Item(Operators, FALSE, "one")>>),
                 PatDecl(n_NUM, FALSE, <<Item(Digits, FALSE, "star")>>) >>]

EagerConfig == [table |-> EagerTable, rec |-> EagerRecognizer]

DfaConfigs == {DigitOpConfig, SignedConfig, PartialConfig, EagerConfig}

\* the programs of the model: a rule table for tokenize and a transition
\* table with its recognizer for tokenize2
Programs == (MatcherLists \X {DigitOpConfig}) \cup ({DigitOpRules} \X DfaConfigs)

MapInsert(map, k, v) == [x \in (DOMAIN map) \cup {k} |-> IF x = k THEN v ELSE map[x]]

\* the inner repetition of lexdfamap!: intern every next state of one block
RECURSIVE InternTrans(_, _, _)
InternTrans(I, trans, acc) ==
    IF trans = <<>> THEN [interner |-> I, vec |-> acc]
    ELSE LET tr == Head(trans)
         IN InternTrans(Intern(I, tr.nxt), Tail(trans),
                        Append(acc, [m |-> tr.m, sym |-> str2sym(I, tr.nxt),
                                     res |-> tr.flag]))

\* lexdfamap!: build the HashMap, interning state names in the building thread
RECURSIVE lexdfamap(_, _, _)
lexdfamap(I, decls, map) ==
    IF decls = <<>> THEN [interner |-> I, map |-> map]
    ELSE LET d == Head(decls)
             tv == InternTrans(I, d.trans, <<>>)
             cur_st == str2sym(tv.interner, d.cur)
         IN lexdfamap(Intern(tv.interner, d.cur), Tail(decls),
                      MapInsert(map, cur_st, tv.vec))

\* token_recognizer!: compile the patterns, interning the token names
RECURSIVE RecognizerItems(_, _, _)
RecognizerItems(I, pats, acc) ==
    IF pats = <<>> THEN [interner |-> I, pat_items |-> acc]
    ELSE LET pd == Head(pats)
         IN RecognizerItems(Intern(I, pd.name), Tail(pats),
                Append(acc, [pat |-> [anchored |-> pd.anchored, items |-> pd.items],
                             name |-> str2sym(I, pd.name)]))

\* forward taking the last transition whose matcher accepts ch
forward_last(map, st, ch) ==
    IF st \notin DOMAIN map THEN [panic |-> TRUE, st |-> st, res |-> FALSE]
    ELSE LET items == map[st]
             hits == {i \in 1..Len(items) : ch \in items[i].m}
         IN IF hits = {} THEN [panic |-> TRUE, st |-> st, res |-> FALSE]
            ELSE LET i == CHOOSE j \in hits : \A h \in hits : j >= h
                 IN [panic |-> FALSE, st |-> items[i].sym, res |-> items[i].res]

\* forward staying in its state, without a boundary, on an uncovered character
forward_stay(map, st, ch) ==
    IF st \notin DOMAIN map THEN [panic |-> FALSE, st |-> st, res |-> FALSE]
    ELSE LET items == map[st]
             hits == {i \in 1..Len(items) : ch \in items[i].m}
         IN IF hits = {} THEN [panic |-> FALSE, st |-> st, res |-> FALSE]
            ELSE LET i == CHOOSE j \in hits : \A h \in hits : j <= h
                 IN [panic |-> FALSE, st |-> items[i].sym, res |-> items[i].res]

\* LexDFA::forward: the first transition of the current state whose matcher
\* accepts ch; a missing state or an uncovered character panics
forward(map, st, ch) ==
    IF st \notin DOMAIN map THEN [panic |-> TRUE, st |-> st, res |-> FALSE]
    ELSE LET items == map[st]
             hits == {i \in 1..Len(items) : ch \in items[i].m}
         IN IF hits = {} THEN [panic |-> TRUE, st |-> st, res |-> FALSE]
            ELSE LET i == CHOOSE j \in hits : \A h \in hits : j <= h
                 IN [panic |-> FALSE, st |-> items[i].sym, res |-> items[i].res]

\* TokenRecognizer::recognize
recognize(I, rec, src, span) ==
    LET end == Min2(span.end, span.from + rec.lookhead)
        hits == {i \in 1..Len(rec.pat_items) :
                    IsMatch(rec.pat_items[i].pat, Slice(src, 0, end))}
        first == CHOOSE j \in hits : \A h \in hits : j <= h
        text == Slice(src, span.from, span.end)
    IN IF ~IsCharBoundary(src, end) \/ hits = {} THEN Ret(MPanic, I)
       ELSE Ret(MOk(Token(rec.pat_items[first].name, str2sym(I, text), span)),
                Intern(I, text))

(***************************************************************************)
(* State.                                                                  *)
(***************************************************************************)
Threads == {1, 2}

VARIABLES
    running,     \* the threads of the program
    interner,    \* interner[t]: the thread-local INTERNER of thread t
    matchers,    \* the rule table behind the static MATCHERS
    compiled,    \* compiled[i]: the lazy_static TokenMatcher of rule i
    dfacfg,      \* the declarations behind LEX_DFA_MAP and RECOGNIZER
    dfamap,      \* the lazy_static LEX_DFA_MAP
    recognizer,  \* the lazy_static RECOGNIZER
    source,      \* source[t]: the text of the SrcFileInfo thread t scans
    pc,          \* pc[t]: where thread t is
    bytes_pos,   \* locals of tokenize and tokenize2, per thread
    chars_pos,
    tokens,
    tok_matched,
    mi,          \* position of the for loop over fn_matchers
    tok_rules,   \* history: the rule that produced each token of tokens[t]
    result,      \* what tokenize returned to thread t
    dfa_st,      \* LexDFA.st
    cache,
    ci,          \* characters consumed by the for loop of tokenize2
    result2,     \* what tokenize2 returned to thread t
    scan,        \* a call of an aux_strlike_m wrapper, stepped per character
    display,     \* display[t]: the rendering of the error tokenize returned
    issued,      \* history: the str2sym and sym2str calls made so far
    lookups,     \* history: the location lookups made on source[1] so far
    trimmed      \* trimmed[t]: what prelude::trim returned for result[t]

statics == <<running, matchers, dfacfg, source>>

locals1 == <<bytes_pos, chars_pos, tokens, tok_matched, mi, tok_rules>>

locals2 == <<dfa_st, cache, ci>>

lazies2 == <<dfamap, recognizer>>

vars == <<running, interner, matchers, compiled, dfacfg, dfamap, recognizer,
          source, pc, bytes_pos, chars_pos, tokens, tok_matched, mi, tok_rules,
          result, dfa_st, cache, ci, result2, scan, display, issued, lookups,
          trimmed>>

\* TokenizeResult
NoResult == [kind |-> "none", tokens |-> <<>>, reason |-> "", start |-> 0]

Ok(toks) == [kind |-> "ok", tokens |-> toks, reason |-> "", start |-> 0]

Err(reason, start) == [kind |-> "err", tokens |-> <<>>, reason |-> reason, start |-> start]

\* an error that drops the matcher's reason
TokenizeError_noreason(reason, chars) == Err(UnrecognizedToken, chars)

\* Err(TokenizeError { reason, start: chars_pos, src })
TokenizeError(reason, chars) == Err(reason, chars)

\* an empty source reported as an error
EmptyResult_err == Err(UnrecognizedToken, 0)

\* the early return of tokenize on an empty source
EmptyResult == Ok(<<>>)

\* the zero-length test looking at the end offset only
IsZeroLen_endonly(tok) == tok.span.end = 0

\* a zero-length test that never fires
IsZeroLen_never(tok) == FALSE

\* tok.span_len() == 0
IsZeroLen(tok) == SpanLen(tok.span) = 0

\* the matchers visited last to first
IterOrder_rev(n, i) == n + 1 - i

\* fn_matchers.iter(): the rule visited by the i-th iteration, of n rules
IterOrder(n, i) == i

NoScan == [pc |-> "off", rule |-> dqstr_rule, src |-> <<>>, rest |-> <<>>,
           s |-> ScanInit, res |-> MNone]

InitThreads(T) ==
    /\ running = T
    /\ interner = [t \in Threads |-> <<>>]
    /\ compiled = [i \in 1..Len(matchers) |-> Uncompiled]
    /\ dfamap = [built |-> FALSE, map |-> <<>>]
    /\ recognizer = [built |-> FALSE, lookhead |-> 0, pat_items |-> <<>>]
    /\ pc = [t \in Threads |-> IF t \in T THEN "start" ELSE "off"]
    /\ bytes_pos = [t \in Threads |-> 0]
    /\ chars_pos = [t \in Threads |-> 0]
    /\ tokens = [t \in Threads |-> <<>>]
    /\ tok_matched = [t \in Threads |-> FALSE]
    /\ mi = [t \in Threads |-> 1]
    /\ tok_rules = [t \in Threads |-> <<>>]
    /\ result = [t \in Threads |-> NoResult]
    /\ dfa_st = [t \in Threads |-> 0]
    /\ cache = [t \in Threads |-> <<>>]
    /\ ci = [t \in Threads |-> 0]
    /\ result2 = [t \in Threads |-> NoResult]
    /\ display = [t \in Threads |-> NoDisplay]
    /\ issued = <<>>
    /\ lookups = {}
    /\ trimmed = [t \in Threads |-> NoResult]

\* one thread scans one source with one rule table
Init ==
    /\ \E pr \in Programs :
          /\ matchers = pr[1]
          /\ dfacfg = pr[2]
          /\ \E src \in SourcesFor(pr[1]) : source = [t \in Threads |-> src]
    /\ scan = NoScan
    /\ InitThreads({1})

(***************************************************************************)
(* tokenize                                                                *)
(***************************************************************************)
\* fn_matcher(&source[bytes_pos..], bytes_pos) for rule i on thread t: the
\* generated matcher compiles its TokenMatcher on first use
RuleAt(t) == IterOrder(Len(matchers), mi[t])

CompiledBy(t, i) ==
    IF compiled[i].init THEN compiled[i]
    ELSE [init |-> TRUE, pat |-> matchers[i].pat,
          tok_name |-> TokenMatcherNew(interner[t], matchers[i].pat, matchers[i].name).tok_name]

CallMatcher(t, i) ==
    LET rule == matchers[i]
        text == Slice(source[t], bytes_pos[t], ByteLen(source[t]))
        I1 == IF compiled[i].init THEN interner[t] ELSE Intern(interner[t], rule.name)
    IN IF rule.kind = "regex"
       THEN fetch_tok(I1, CompiledBy(t, i), text, bytes_pos[t])
       ELSE fn_m(interner[t], rule, text, bytes_pos[t])

\* entry of tokenize: an empty source returns at once
TokenizeStart(t) ==
    /\ pc[t] = "start"
    /\ IF ByteLen(source[t]) = 0
       THEN /\ result' = [result EXCEPT ![t] = EmptyResult]
            /\ pc' = [pc EXCEPT ![t] = "ret"]
       ELSE /\ result' = result
            /\ pc' = [pc EXCEPT ![t] = "while"]
    /\ bytes_pos' = [bytes_pos EXCEPT ![t] = 0]
    /\ chars_pos' = [chars_pos EXCEPT ![t] = 0]
    /\ tokens' = [tokens EXCEPT ![t] = <<>>]
    /\ tok_rules' = [tok_rules EXCEPT ![t] = <<>>]
    /\ UNCHANGED <<statics, trimmed, lookups, display, issued, interner, compiled, lazies2, tok_matched, mi,
                   locals2, result2, scan>>

\* the test of the while loop, and the final Ok(tokens)
LoopHead(t) ==
    /\ pc[t] = "while"
    /\ IF bytes_pos[t] < ByteLen(source[t])
       THEN /\ tok_matched' = [tok_matched EXCEPT ![t] = FALSE]
            /\ mi' = [mi EXCEPT ![t] = 1]
            /\ pc' = [pc EXCEPT ![t] = "for"]
            /\ result' = result
       ELSE /\ result' = [result EXCEPT ![t] = Ok(tokens[t])]
            /\ pc' = [pc EXCEPT ![t] = "ret"]
            /\ UNCHANGED <<tok_matched, mi>>
    /\ UNCHANGED <<statics, trimmed, lookups, display, issued, interner, compiled, lazies2, bytes_pos, chars_pos,
                   tokens, tok_rules, locals2, result2, scan>>

\* one iteration of the for loop over fn_matchers
TryMatcher(t) ==
    /\ pc[t] = "for"
    /\ IF mi[t] > Len(matchers)
       THEN /\ pc' = [pc EXCEPT ![t] = "tail"]
            /\ UNCHANGED <<interner, compiled, bytes_pos, chars_pos, tokens,
                           tok_matched, mi, tok_rules, result>>
       ELSE IF ~IsCharBoundary(source[t], bytes_pos[t])
       THEN /\ pc' = [pc EXCEPT ![t] = "panic"]
            /\ UNCHANGED <<interner, compiled, bytes_pos, chars_pos, tokens,
                           tok_matched, mi, tok_rules, result>>
       ELSE LET r == CallMatcher(t, RuleAt(t))
                tok == r.res.tok
            IN /\ interner' = [interner EXCEPT ![t] = r.interner]
               /\ compiled' = IF matchers[RuleAt(t)].kind = "regex"
                              THEN [compiled EXCEPT ![RuleAt(t)] = CompiledBy(t, RuleAt(t))]
                              ELSE compiled
               /\ CASE r.res.kind = "none" ->
                         /\ mi' = [mi EXCEPT ![t] = mi[t] + 1]
                         /\ UNCHANGED <<pc, bytes_pos, chars_pos, tokens,
                                        tok_matched, tok_rules, result>>
                    [] r.res.kind = "panic" ->
                         /\ pc' = [pc EXCEPT ![t] = "panic"]
                         /\ UNCHANGED <<bytes_pos, chars_pos, tokens,
                                        tok_matched, mi, tok_rules, result>>
                    [] r.res.kind = "err" ->
                         /\ result' = [result EXCEPT ![t] = TokenizeError(r.res.reason, chars_pos[t])]
                         /\ pc' = [pc EXCEPT ![t] = "ret"]
                         /\ UNCHANGED <<bytes_pos, chars_pos, tokens,
                                        tok_matched, mi, tok_rules>>
                    [] OTHER ->
                         IF IsZeroLen(tok)
                         THEN /\ result' = [result EXCEPT ![t] = TokenizeError(ZeroLenToken, chars_pos[t])]
                              /\ pc' = [pc EXCEPT ![t] = "ret"]
                              /\ UNCHANGED <<bytes_pos, chars_pos, tokens,
                                             tok_matched, mi, tok_rules>>
                         ELSE IF ~SpanSliceOk(tok.span, source[t])
                         THEN /\ pc' = [pc EXCEPT ![t] = "panic"]
                              /\ UNCHANGED <<bytes_pos, chars_pos, tokens,
                                             tok_matched, mi, tok_rules, result>>
                         ELSE /\ chars_pos' = [chars_pos EXCEPT ![t] =
                                                chars_pos[t] + chars_count(tok.span, source[t])]
                              /\ bytes_pos' = [bytes_pos EXCEPT ![t] =
                                                bytes_pos[t] + SpanLen(tok.span)]
                              /\ tokens' = [tokens EXCEPT ![t] = Append(tokens[t], tok)]
                              /\ tok_rules' = [tok_rules EXCEPT ![t] = Append(tok_rules[t], RuleAt(t))]
                              /\ tok_matched' = [tok_matched EXCEPT ![t] = TRUE]
                              /\ pc' = [pc EXCEPT ![t] = "tail"]
                              /\ UNCHANGED <<mi, result>>
    /\ UNCHANGED <<statics, trimmed, lookups, display, issued, lazies2, locals2, result2, scan>>

\* the caller formats the error tokenize returned: format!("{}", err)
ShowError(t) ==
    /\ pc[t] = "ret"
    /\ result[t].kind = "err"
    /\ display[t] = NoDisplay
    /\ display' = [display EXCEPT ![t] = Display(source[t], result[t])]
    /\ pc' = [pc EXCEPT ![t] = IF Display(source[t], result[t]).kind = "panic"
                               THEN "panic" ELSE "ret"]
    /\ UNCHANGED <<statics, trimmed, lookups, issued, interner, compiled, lazies2, locals1, locals2,
                   result, result2, scan>>

\* the names prelude::trim looks for, in the order of its array
TrimTargets ==
    << <<"n", "e", "w", "l", "i", "n", "e">>,
       <<"s", "p">>,
       <<"s", "h", "a", "r", "p", "_", "l", "i", "n", "e", "_",
         "c", "o", "m", "m", "e", "n", "t">>,
       n_slash_line_comment >>

\* Token::check_names_in: the resolved name is one of targets
check_names_in(I, tok, targets) ==
    \E i \in 1..Len(targets) : sym2str(I, tok.name) = targets[i]

\* the tokens the filter of trim keeps
TrimKeeps(I, tok) == ~check_names_in(I, tok, TrimTargets)

\* a call of trim that did not return
TrimPanic == [kind |-> "panic", tokens |-> <<>>, reason |-> "", start |-> 0]

\* prelude::trim: and_then over the result; resolve(..).unwrap() panics on a
\* name the interner of the calling thread does not hold
trim(I, res) ==
    IF res.kind # "ok" THEN res
    ELSE IF \E k \in 1..Len(res.tokens) : ~Resolves(I, res.tokens[k].name)
         THEN TrimPanic
         ELSE Ok(SelectSeq(res.tokens, LAMBDA tok : TrimKeeps(I, tok)))

\* trim(tokenize(&source)) on the thread that tokenized
Trim(t) ==
    /\ pc[t] = "ret"
    /\ trimmed[t] = NoResult
    /\ trimmed' = [trimmed EXCEPT ![t] = trim(interner[t], result[t])]
    /\ pc' = [pc EXCEPT ![t] = IF trim(interner[t], result[t]) = TrimPanic
                               THEN "panic" ELSE "ret"]
    /\ UNCHANGED <<statics, lookups, display, issued, interner, compiled, lazies2, locals1,
                   locals2, result, result2, scan>>

\* after the for loop: no matcher matched, or go round the while loop
LoopTail(t) ==
    /\ pc[t] = "tail"
    /\ IF ~tok_matched[t]
       THEN /\ result' = [result EXCEPT ![t] = TokenizeError(UnrecognizedToken, chars_pos[t])]
            /\ pc' = [pc EXCEPT ![t] = "ret"]
       ELSE /\ result' = result
            /\ pc' = [pc EXCEPT ![t] = "while"]
    /\ UNCHANGED <<statics, trimmed, lookups, display, issued, interner, compiled, lazies2, locals1, locals2,
                   result2, scan>>

(***************************************************************************)
(* tokenize2                                                               *)
(***************************************************************************)
\* LEX_DFA_MAP as thread t sees it: built by the first thread that uses it
DfaMapBy(t) ==
    IF dfamap.built THEN dfamap
    ELSE [built |-> TRUE, map |-> lexdfamap(interner[t], dfacfg.table, <<>>).map]

InternerAfterDfaMap(t) ==
    IF dfamap.built THEN interner[t]
    ELSE lexdfamap(interner[t], dfacfg.table, <<>>).interner

\* RECOGNIZER as thread t sees it, given the thread's interner I
RecognizerBy(I) ==
    IF recognizer.built THEN recognizer
    ELSE [built |-> TRUE, lookhead |-> dfacfg.rec.lookhead,
          pat_items |-> RecognizerItems(I, dfacfg.rec.pats, <<>>).pat_items]

InternerAfterRecognizer(I) ==
    IF recognizer.built THEN I
    ELSE RecognizerItems(I, dfacfg.rec.pats, <<>>).interner

\* the call tokenize2(&source, &LEX_DFA_MAP, &RECOGNIZER) up to the for loop:
\* the two statics are forced, then LexDFA::new interns the entry state
Tokenize2Start(t) ==
    /\ pc[t] = "ret"
    /\ LET I1 == InternerAfterDfaMap(t)
           I2 == InternerAfterRecognizer(I1)
       IN /\ dfamap' = DfaMapBy(t)
          /\ recognizer' = RecognizerBy(I1)
          /\ dfa_st' = [dfa_st EXCEPT ![t] = str2sym(I2, n_Entry)]
          /\ interner' = [interner EXCEPT ![t] = Intern(I2, n_Entry)]
    /\ tokens' = [tokens EXCEPT ![t] = <<>>]
    /\ bytes_pos' = [bytes_pos EXCEPT ![t] = 0]
    /\ cache' = [cache EXCEPT ![t] = <<>>]
    /\ ci' = [ci EXCEPT ![t] = 0]
    /\ pc' = [pc EXCEPT ![t] = "chars"]
    /\ UNCHANGED <<statics, trimmed, lookups, display, issued, compiled, chars_pos, tok_matched, mi, tok_rules,
                   result, result2, scan>>

\* the buffer emptied at a boundary without taking the character
CacheAfter_drop(flag, buf, c) == IF flag THEN <<>> ELSE Append(buf, c)

\* the buffer after one iteration: cleared at a boundary, then c is pushed
CacheAfter(flag, buf, c) == IF flag THEN <<c>> ELSE Append(buf, c)

\* one iteration of the for loop over the characters of the source
Tokenize2Step(t) ==
    /\ pc[t] = "chars"
    /\ ci[t] < Len(source[t])
    /\ LET c == source[t][ci[t] + 1]
           f == forward(dfamap.map, dfa_st[t], c)
           span == Span(bytes_pos[t], bytes_pos[t] + ByteLen(cache[t]))
           r == recognize(interner[t], recognizer, source[t], span)
       IN IF f.panic \/ (f.res /\ r.res.kind = "panic")
          THEN /\ pc' = [pc EXCEPT ![t] = "panic"]
               /\ UNCHANGED <<interner, tokens, bytes_pos, cache, ci, dfa_st>>
          ELSE /\ dfa_st' = [dfa_st EXCEPT ![t] = f.st]
               /\ ci' = [ci EXCEPT ![t] = ci[t] + 1]
               /\ pc' = pc
               /\ IF f.res
                  THEN /\ bytes_pos' = [bytes_pos EXCEPT ![t] = bytes_pos[t] + SpanLen(span)]
                       /\ tokens' = [tokens EXCEPT ![t] = Append(tokens[t], r.res.tok)]
                       /\ interner' = [interner EXCEPT ![t] = r.interner]
                       /\ cache' = [cache EXCEPT ![t] = CacheAfter(TRUE, cache[t], c)]
                  ELSE /\ cache' = [cache EXCEPT ![t] = CacheAfter(FALSE, cache[t], c)]
                       /\ UNCHANGED <<interner, tokens, bytes_pos>>
    /\ UNCHANGED <<statics, trimmed, lookups, display, issued, compiled, lazies2, chars_pos, tok_matched, mi,
                   tok_rules, result, result2, scan>>

\* the end of the for loop: Ok(tokens)
Tokenize2Return(t) ==
    /\ pc[t] = "chars"
    /\ ci[t] = Len(source[t])
    /\ result2' = [result2 EXCEPT ![t] = Ok(tokens[t])]
    /\ pc' = [pc EXCEPT ![t] = "done"]
    /\ UNCHANGED <<statics, trimmed, lookups, display, issued, interner, compiled, lazies2, locals1, locals2,
                   result, scan>>

Next ==
    \E t \in Threads :
        \/ TokenizeStart(t)
        \/ LoopHead(t)
        \/ TryMatcher(t)
        \/ LoopTail(t)
        \/ ShowError(t)
        \/ Trim(t)
        \/ Tokenize2Start(t)
        \/ Tokenize2Step(t)
        \/ Tokenize2Return(t)

Spec == Init /\ [][Next]_vars

(***************************************************************************)
(* Two threads share the statics of one rule table, as test_tokenize1 does. *)
(***************************************************************************)
\* longest source text of a thread in the two-thread runs
MaxMTLen == 2

MTSources == SeqsUpTo({"1", "+"}, MaxMTLen) \cup {<<"a">>}

InitMT ==
    /\ matchers = DigitOpRules
    /\ dfacfg = DigitOpConfig
    /\ source \in [Threads -> MTSources]
    /\ scan = NoScan
    /\ InitThreads(Threads)

SpecMT == InitMT /\ [][Next]_vars

(***************************************************************************)
(* A call of a matcher function built on aux_strlike_m, one character per  *)
(* step.  The steps apply StrlikeStep and StrlikeFinish, the operators     *)
(* aux_strlike_m is made of.                                               *)
(***************************************************************************)
ScanAlphabet == {DQuote, BSlash, "a", EAcute, Slash}

ScanSources == SeqsUpTo(ScanAlphabet, MaxScanLen) \cup {SrcQuoted}

StrlikeRules == {dqstr_rule, ddqstr_rule, lit_regex_rule}

InitStr ==
    /\ matchers = StringRules
    /\ dfacfg = DigitOpConfig
    /\ source = [t \in Threads |-> <<>>]
    /\ \E rule \in StrlikeRules, src \in ScanSources :
          scan = [pc |-> "call", rule |-> rule, src |-> src, rest |-> <<>>,
                  s |-> ScanInit, res |-> MNone]
    /\ InitThreads({})

\* the starts_with test and the set-up before the loop
ScanCall ==
    /\ scan.pc = "call"
    /\ scan' = IF ~StartsWith(scan.src, scan.rule.prefix)
               THEN [scan EXCEPT !.pc = "done", !.res = MNone]
               ELSE [scan EXCEPT !.pc = "loop",
                                 !.rest = Suffix(scan.src, Len(scan.rule.prefix))]
    /\ UNCHANGED <<statics, trimmed, lookups, display, issued, interner, compiled, lazies2, pc, locals1, locals2,
                   result, result2>>

\* the loop is about to run its body on the next character, in mode st
ScanInMode(st) ==
    /\ scan.pc = "loop"
    /\ scan.rest # <<>>
    /\ scan.s.out = "run"
    /\ scan.s.st = st

\* the scan after one iteration of the loop body
ScanStepped ==
    [scan EXCEPT !.s = StrlikeStep(scan.s, Head(scan.rest), scan.rule.postfix,
                                   scan.rule.escape_char),
                 !.rest = Tail(scan.rest)]

\* a loop iteration in normal mode
ScanNormal ==
    /\ ScanInMode(0)
    /\ scan' = ScanStepped
    /\ UNCHANGED <<statics, trimmed, lookups, display, issued, interner, compiled, lazies2, pc, locals1, locals2,
                   result, result2>>

\* a loop iteration in escape mode
ScanEscape ==
    /\ ScanInMode(1)
    /\ scan' = ScanStepped
    /\ UNCHANGED <<statics, trimmed, lookups, display, issued, interner, compiled, lazies2, pc, locals1, locals2,
                   result, result2>>

\* a loop iteration in tail mode
ScanTail ==
    /\ ScanInMode(2)
    /\ scan' = ScanStepped
    /\ UNCHANGED <<statics, trimmed, lookups, display, issued, interner, compiled, lazies2, pc, locals1, locals2,
                   result, result2>>

\* the code after the loop, and the wrapper's rename
ScanFinish ==
    /\ scan.pc = "loop"
    /\ scan.rest = <<>> \/ scan.s.out # "run"
    /\ LET fin == StrlikeFinish(interner[1], scan.s, 0, scan.rule.prefix,
                             scan.rule.postfix)
           r == IF scan.rule.kind = "lit_regex"
                THEN lit_regex_post(fin, scan.src, 0)
                ELSE Rename(fin, scan.rule.name)
       IN /\ scan' = [scan EXCEPT !.pc = "done", !.res = r.res]
          /\ interner' = [interner EXCEPT ![1] = r.interner]
    /\ UNCHANGED <<statics, trimmed, lookups, display, issued, compiled, lazies2, pc, locals1, locals2,
                   result, result2>>

NextStr == ScanCall \/ ScanNormal \/ ScanEscape \/ ScanTail \/ ScanFinish

SpecStr == InitStr /\ [][NextStr]_vars

(***************************************************************************)
(* A call of heredoc_m.                                                    *)
(***************************************************************************)
\* longest body of a heredoc block drawn exhaustively
MaxBodyLen == 3

\* longest text drawn exhaustively from DocAlphabet
MaxDocLen == 3

DocAlphabet == {"<", "-", "E", "b", " ", Newline}

HeredocTags == SeqsUpTo({"E", "b"}, 2) \ {<<>>}

HeredocBodies == SeqsUpTo({"E", "b", Newline}, MaxBodyLen)

\* <<EOF\nbody\nEOF
SrcHeredoc ==
    <<"<", "<", "E", "O", "F", Newline, "b", "o", "d", "y", Newline, "E", "O", "F">>

\* opener, blanks, tag, rest of the line, body, closing tag
HeredocBlocks ==
    {HeredocOpeners[o] \o sp \o tag \o tr \o <<Newline>> \o body \o <<Newline>> \o tag :
        o \in 1..Len(HeredocOpeners), sp \in {<<>>, <<" ">>}, tag \in HeredocTags,
        tr \in {<<>>, <<" ", "b">>}, body \in HeredocBodies}

DocSources == SeqsUpTo(DocAlphabet, MaxDocLen) \cup HeredocBlocks \cup {SrcHeredoc}

InitDoc ==
    /\ matchers = StringRules
    /\ dfacfg = DigitOpConfig
    /\ source = [t \in Threads |-> <<>>]
    /\ \E src \in DocSources :
          scan = [pc |-> "call", rule |-> heredoc_rule, src |-> src, rest |-> <<>>,
                  s |-> ScanInit, res |-> MNone]
    /\ InitThreads({})

\* heredoc_m(source, 0)
HeredocCall ==
    /\ scan.pc = "call"
    /\ scan.rule.kind = "heredoc"
    /\ LET r == heredoc_m(interner[1], scan.src, 0)
       IN /\ scan' = [scan EXCEPT !.pc = "done", !.res = r.res]
          /\ interner' = [interner EXCEPT ![1] = r.interner]
    /\ UNCHANGED <<statics, trimmed, lookups, display, issued, compiled, lazies2, pc, locals1, locals2,
                   result, result2>>

NextDoc == HeredocCall

SpecDoc == InitDoc /\ [][NextDoc]_vars

(***************************************************************************)
(* One thread calling str2sym and sym2str in any order.                    *)
(***************************************************************************)
\* most calls of str2sym and sym2str in a run
MaxCalls == 4

SymStrings == {<<>>, <<"a">>, <<"b">>, <<"a", "b">>}

InitSym ==
    /\ matchers = StringRules
    /\ dfacfg = DigitOpConfig
    /\ source = [t \in Threads |-> <<>>]
    /\ scan = NoScan
    /\ InitThreads({})

\* str2sym(s)
Str2SymCall ==
    /\ Len(issued) < MaxCalls
    /\ \E s \in SymStrings :
          /\ issued' = Append(issued, [op |-> "str2sym", str |-> s,
                                       sym |-> str2sym(interner[1], s)])
          /\ interner' = [interner EXCEPT ![1] = Intern(interner[1], s)]
    /\ UNCHANGED <<statics, trimmed, lookups, display, compiled, lazies2, pc, locals1, locals2,
                   result, result2, scan>>

\* sym2str(sym) on a Symbol an earlier call returned
Sym2StrCall ==
    /\ Len(issued) < MaxCalls
    /\ \E k \in 1..Len(issued) :
          issued' = Append(issued, [op |-> "sym2str",
                                    str |-> sym2str(interner[1], issued[k].sym),
                                    sym |-> issued[k].sym])
    /\ UNCHANGED <<statics, trimmed, lookups, display, interner, compiled, lazies2, pc, locals1,
                   locals2, result, result2, scan>>

NextSym == Str2SymCall \/ Sym2StrCall

SpecSym == InitSym /\ [][NextSym]_vars

(***************************************************************************)
(* Location lookups on one SrcFileInfo.                                    *)
(***************************************************************************)
\* longest text of a SrcFileInfo looked up
MaxTextLen == 3

\* most lookups recorded in a run
MaxLookups == 2

TextAlphabet == {"a", "\n", EAcute}

Texts == SeqsUpTo(TextAlphabet, MaxTextLen)

InitLoc ==
    /\ matchers = StringRules
    /\ dfacfg = DigitOpConfig
    /\ \E text \in Texts : source = [t \in Threads |-> text]
    /\ scan = NoScan
    /\ InitThreads({})

Lookup(fn, offset, panic, loc, line) ==
    [fn |-> fn, offset |-> offset, panic |-> panic, loc |-> loc, line |-> line]

\* src.offset2srcloc(offset)
Offset2SrcLocCall ==
    /\ Cardinality(lookups) < MaxLookups
    /\ \E offset \in 0..(Len(source[1]) + 1) :
          lookups' = lookups \cup
              {Lookup("offset2srcloc", offset, FALSE,
                      offset2srcloc(source[1], offset), NoLine)}
    /\ UNCHANGED <<statics, trimmed, display, issued, interner, compiled, lazies2, pc,
                   locals1, locals2, result, result2, scan>>

\* src.boffset2srcloc(offset)
BOffset2SrcLocCall ==
    /\ Cardinality(lookups) < MaxLookups
    /\ \E offset \in 0..(ByteLen(source[1]) + 1) :
          lookups' = lookups \cup
              {Lookup("boffset2srcloc", offset,
                      boffset2srcloc(source[1], offset).panic,
                      boffset2srcloc(source[1], offset).loc, NoLine)}
    /\ UNCHANGED <<statics, trimmed, display, issued, interner, compiled, lazies2, pc,
                   locals1, locals2, result, result2, scan>>

\* src.linestr(cur)
LinestrCall ==
    /\ Cardinality(lookups) < MaxLookups
    /\ \E cur \in 0..(ByteLen(source[1]) + 1) :
          lookups' = lookups \cup
              {Lookup("linestr", cur, linestr(source[1], cur).kind = "panic",
                      SrcLoc(0, 0), linestr(source[1], cur))}
    /\ UNCHANGED <<statics, trimmed, display, issued, interner, compiled, lazies2, pc,
                   locals1, locals2, result, result2, scan>>

NextLoc == Offset2SrcLocCall \/ BOffset2SrcLocCall \/ LinestrCall

SpecLoc == InitLoc /\ [][NextLoc]_vars

\* the stepped call returns what the function returns
ScanAgrees ==
    scan.pc = "done" =>
        scan.res = fn_m(<<>>, scan.rule, scan.src, 0).res

(***************************************************************************)
(* Properties.                                                             *)
(***************************************************************************)
\* thread t is inside the while loop of tokenize
InTokenize(t) == pc[t] \in {"while", "for", "tail"}

\* the tokens tokenize has pushed so far, or returned
TokenizeTokens(t) == IF InTokenize(t) THEN tokens[t] ELSE result[t].tokens

\* what the matcher of a rule returns on text, whatever the interner holds
RuleResult(rule, text, from) ==
    IF rule.kind = "regex"
    THEN fetch_tok(<<>>, [pat |-> rule.pat, tok_name |-> 0], text, from).res
    ELSE fn_m(<<>>, rule, text, from).res

\* the text the matchers are handed at the current position of thread t
TextAt(t) == Slice(source[t], bytes_pos[t], ByteLen(source[t]))

\* the for loop of thread t is about to call a matcher
AboutToCall(t) ==
    /\ pc[t] = "for"
    /\ mi[t] <= Len(matchers)
    /\ IsCharBoundary(source[t], bytes_pos[t])

RECURSIVE ConcatSpans(_, _)
ConcatSpans(toks, src) ==
    IF toks = <<>> THEN <<>>
    ELSE Slice(src, Head(toks).span.from, Head(toks).span.end) \o ConcatSpans(Tail(toks), src)

SpansTile(toks, src) ==
    /\ toks = <<>> => src = <<>>
    /\ toks # <<>> => toks[1].span.from = 0 /\ toks[Len(toks)].span.end = ByteLen(src)
    /\ \A k \in 2..Len(toks) : toks[k].span.from = toks[k - 1].span.end
    /\ \A k \in 1..Len(toks) : SliceOk(src, toks[k].span.from, toks[k].span.end)
    /\ ConcatSpans(toks, src) = src

\* C1: whenever tokenize returns Ok, the spans of the returned tokens tile the
\* source: the first starts at byte 0, each starts where the previous one ends,
\* the last ends at the byte length, and the span texts concatenated in order
\* are the source text.
C1_SpansTileSource ==
    \A t \in Threads : result[t].kind = "ok" => SpansTile(result[t].tokens, source[t])

C1_Witness ==
    /\ source[1] = Src12Plus34
    /\ result[1].kind = "ok"
    /\ Len(result[1].tokens) = 3

\* C4: a matcher call that produces a token of zero length makes tokenize
\* return ZeroLenToken at once, at any position, and no token of zero length
\* is ever among the tokens tokenize holds or returns.
C4_ZeroLenIsFatal ==
    /\ [](\A t \in Threads : \A k \in 1..Len(TokenizeTokens(t)) :
            TokenizeTokens(t)[k].span.end > TokenizeTokens(t)[k].span.from)
    /\ [][\A t \in Threads :
            (/\ AboutToCall(t)
             /\ RuleResult(matchers[mi[t]], TextAt(t), bytes_pos[t]).kind = "ok"
             /\ LET sp == RuleResult(matchers[mi[t]], TextAt(t), bytes_pos[t]).tok.span
                IN sp.end = sp.from)
            => (/\ pc'[t] = "ret"
                /\ result'[t] = Err(ZeroLenToken, chars_pos[t]))]_vars

C4_Witness ==
    /\ pc[1] = "ret"
    /\ result[1].kind = "err"
    /\ result[1].reason = ZeroLenToken
    /\ result[1].start > 0
    /\ Len(tokens[1]) > 0

\* C5: the token at a position comes from the first rule, in list order, whose
\* matcher matches there, even when a later rule matches too; with ++ listed
\* before +, the source ++ is one token of two characters.
C5_FirstMatcherWins ==
    \A t \in Threads :
        /\ \A k \in 1..Len(TokenizeTokens(t)) :
              LET tok == TokenizeTokens(t)[k]
                  text == Slice(source[t], tok.span.from, ByteLen(source[t]))
              IN /\ RuleResult(matchers[tok_rules[t][k]], text, tok.span.from).kind = "ok"
                 /\ RuleResult(matchers[tok_rules[t][k]], text, tok.span.from).tok.span = tok.span
                 /\ \A j \in 1..(tok_rules[t][k] - 1) :
                       RuleResult(matchers[j], text, tok.span.from).kind = "none"
        /\ (source[t] = SrcPlusPlus /\ matchers = PriorityRules /\ result[t].kind # "none")
              => /\ result[t].kind = "ok"
                 /\ Len(result[t].tokens) = 1
                 /\ result[t].tokens[1].span = Span(0, 2)
                 /\ sym2str(interner[t], result[t].tokens[1].name) = n_inc

C5_Witness ==
    /\ source[1] = SrcPlusPlus
    /\ matchers = PriorityRules
    /\ result[1].kind = "ok"
    /\ tok_rules[1] = <<2>>
    /\ RuleResult(matchers[3], source[1], 0).kind = "ok"

\* C6: when a matcher returns an explicit failure reason, tokenize returns at
\* once an error with exactly that reason and the current character offset:
\* no later matcher is tried, no further position is scanned, the tokens
\* matched so far are not returned, and the result never changes afterwards.
C6_ExplicitFailureAborts ==
    /\ [][\A t \in Threads :
            (/\ AboutToCall(t)
             /\ RuleResult(matchers[mi[t]], TextAt(t), bytes_pos[t]).kind = "err")
            => (/\ pc'[t] = "ret"
                /\ result'[t].kind = "err"
                /\ result'[t].reason =
                      RuleResult(matchers[mi[t]], TextAt(t), bytes_pos[t]).reason
                /\ result'[t].start = chars_pos[t]
                /\ result'[t].tokens = <<>>
                /\ mi'[t] = mi[t]
                /\ bytes_pos'[t] = bytes_pos[t])]_vars
    /\ [][\A t \in Threads : result[t].kind # "none" => result'[t] = result[t]]_vars

C6_Witness ==
    /\ pc[1] = "ret"
    /\ source[1] = SrcBadPostfix
    /\ result[1].kind = "err"
    /\ result[1].reason = UnexpectedPostfix
    /\ Len(tokens[1]) = 1
    /\ mi[1] < Len(matchers)
    /\ RuleResult(matchers[mi[1] + 1], TextAt(1), bytes_pos[1]).kind = "ok"

\* C7: when no matcher matches at a position, tokenize fails with
\* UnrecognizedToken whose offset is the number of characters covered by the
\* tokens matched so far; for 3? under the digit and operator rules the offset
\* is 1, which offset2srcloc maps to line 1, column 2.
C7_UnrecognizedTokenOffset ==
    /\ [](\A t \in Threads :
            /\ (pc[t] = "ret" /\ result[t].kind = "err"
                    /\ result[t].reason = UnrecognizedToken)
                  => /\ result[t].start = Len(ConcatSpans(tokens[t], source[t]))
                     /\ result[t].start = CharsBefore(source[t], bytes_pos[t])
                     /\ \A j \in 1..Len(matchers) :
                           RuleResult(matchers[j], TextAt(t), bytes_pos[t]).kind = "none"
            /\ (source[t] = Src3Question /\ matchers = DigitOpRules
                    /\ result[t].kind # "none")
                  => /\ result[t] = Err(UnrecognizedToken, 1)
                     /\ offset2srcloc(source[t], result[t].start) = SrcLoc(1, 2))
    /\ [][\A t \in Threads :
            (pc[t] = "tail" /\ ~tok_matched[t])
            => (pc'[t] = "ret" /\ result'[t] = Err(UnrecognizedToken, chars_pos[t]))]_vars

C7_Witness ==
    /\ pc[1] = "ret"
    /\ source[1] = Src3Question
    /\ matchers = DigitOpRules
    /\ result[1].reason = UnrecognizedToken
    /\ Len(tokens[1]) = 1

\* C8: on an empty source tokenize returns Ok with no tokens and tokenize2
\* returns Ok with no tokens, for every rule table, transition table and
\* recognizer; neither call fails or crashes.
C8_EmptySourceIsOk ==
    \A t \in Threads :
        source[t] = <<>> =>
            /\ pc[t] # "panic"
            /\ result[t].kind # "none" => result[t] = Ok(<<>>)
            /\ result2[t].kind # "none" => result2[t] = Ok(<<>>)
            /\ pc[t] \notin {"off", "start"} => result[t].kind # "none"
            /\ pc[t] = "done" => result2[t].kind # "none"

C8_Witness ==
    /\ source[1] = <<>>
    /\ pc[1] = "done"
    /\ result[1] = Ok(<<>>)
    /\ result2[1] = Ok(<<>>)

\* C2: when two threads tokenize with the same generated matcher list, every
\* token held or returned on a thread has a name that resolves, in that
\* thread's own interner, to the name of the rule that matched it.
C2_NamesResolvePerThread ==
    \A t \in Threads : \A k \in 1..Len(TokenizeTokens(t)) :
        /\ Resolves(interner[t], TokenizeTokens(t)[k].name)
        /\ sym2str(interner[t], TokenizeTokens(t)[k].name) = matchers[tok_rules[t][k]].name

\* the names and values of a token sequence, resolved in interner I
Resolved(I, toks) ==
    [k \in 1..Len(toks) |-> <<sym2str(I, toks[k].name), sym2str(I, toks[k].value)>>]

\* C3: tokenize2 returns a token for every span of the source, the one still
\* in the buffer at the end of input included: 12+34 under the digit and
\* operator table yields NUM("12"), OP("+"), NUM("34").
C3_Tokenize2EmitsLastSpan ==
    \A t \in Threads :
        (source[t] = Src12Plus34 /\ result2[t].kind # "none")
        => /\ result2[t].kind = "ok"
           /\ Resolved(interner[t], result2[t].tokens) =
                 << <<n_NUM, <<"1", "2">> >>, <<n_OP, <<"+">> >>, <<n_NUM, <<"3", "4">> >> >>

\* the scan of a double-quoted string over "ab\"c" has returned
QuotedScanDone ==
    /\ scan.pc = "done"
    /\ scan.rule = dqstr_rule
    /\ scan.src = SrcQuoted

\* C9 as stated: dqstr_m on "ab\"c" yields one dqstr token whose value is
\* ab"c, the escape resolved, and whose span covers 8 bytes.
C9_QuotedValueUnescaped ==
    QuotedScanDone =>
        /\ scan.res.kind = "ok"
        /\ sym2str(interner[1], scan.res.tok.name) = n_dqstr
        /\ sym2str(interner[1], scan.res.tok.value) = <<"a", "b", DQuote, "c">>
        /\ scan.res.tok.span = Span(0, 8)

\* C9 as amended: dqstr_m on "ab\"c" yields one dqstr token whose value is
\* ab\"c, the quotes stripped and the escape character kept, and whose span
\* covers the 7 bytes of the input.
C9_QuotedValueKeepsEscape ==
    QuotedScanDone =>
        /\ scan.res.kind = "ok"
        /\ sym2str(interner[1], scan.res.tok.name) = n_dqstr
        /\ sym2str(interner[1], scan.res.tok.value) = <<"a", "b", BSlash, DQuote, "c">>
        /\ scan.res.tok.span = Span(0, ByteLen(SrcQuoted))
        /\ ByteLen(SrcQuoted) = 7

C9_Witness == QuotedScanDone /\ scan.res.kind = "ok"

\* C10: in escape mode the next character, whatever it is, is appended to the
\* value and the scanner goes back to normal mode, so an escaped delimiter
\* does not end the token; no call returns UnrecognizedEscaped.
C10_LenientEscape ==
    /\ [][ScanInMode(1) =>
            /\ scan'.s.st = 0
            /\ scan'.s.val = Append(scan.s.val, Head(scan.rest))
            /\ scan'.s.out = "run"
            /\ scan'.pc = "loop"]_vars
    /\ [](scan.res.reason # UnrecognizedEscaped)

\* an escaped delimiter has just been copied and the scan goes on in normal mode
C10_Witness ==
    /\ scan.pc = "loop"
    /\ scan.s.st = 0
    /\ scan.s.out = "run"
    /\ Len(scan.s.val) >= 2
    /\ scan.s.val[Len(scan.s.val) - 1] = scan.rule.escape_char
    /\ scan.s.val[Len(scan.s.val)] = scan.rule.postfix[1]
    /\ scan.rest # <<>>

\* C11: with a postfix of several characters, the delimiter seen in normal
\* mode puts the scanner in tail mode; there every character is compared with
\* the next character of the postfix, in order: an equal character keeps the
\* scan going in tail mode, the first different one ends the scan, and the
\* matcher then returns the failure UnexpectedPostfix.
C11_TailChecksPostfix ==
    /\ [][(ScanInMode(0) /\ Head(scan.rest) = scan.rule.postfix[1]
                         /\ Head(scan.rest) # scan.rule.escape_char)
            => (scan'.s.st = 2 /\ scan'.s.pi = 1 /\ scan'.s.out = "run")]_vars
    /\ [][(ScanInMode(2) /\ scan.s.pi < Len(scan.rule.postfix))
            => IF Head(scan.rest) = scan.rule.postfix[scan.s.pi + 1]
               THEN /\ scan'.s.out = "run"
                    /\ scan'.s.st = 2
                    /\ scan'.s.pi = scan.s.pi + 1
                    /\ scan'.s.val = scan.s.val
               ELSE scan'.s.out = "err"]_vars
    /\ [][(scan.pc = "loop" /\ scan.s.out = "err")
            => (scan'.pc = "done" /\ scan'.res = MErr(UnexpectedPostfix))]_vars
    /\ [](scan.pc = "done" /\ scan.res.kind = "err" => scan.res.reason = UnexpectedPostfix)

\* a character after the delimiter differed from the second character of the
\* postfix and the matcher has returned
C11_Witness ==
    /\ scan.pc = "done"
    /\ scan.rule = ddqstr_rule
    /\ scan.res = MErr(UnexpectedPostfix)
    /\ scan.s.st = 2
    /\ Len(scan.src) = 4

\* the position of the first unescaped / of src at or after position i, or 0
RECURSIVE ClosingSlash(_, _)
ClosingSlash(src, i) ==
    IF i > Len(src) THEN 0
    ELSE IF src[i] = BSlash THEN ClosingSlash(src, i + 2)
    ELSE IF src[i] = Slash THEN i
    ELSE ClosingSlash(src, i + 1)

\* a call of lit_regex_m on a text that starts with /body/ has returned
RegexLitDone ==
    /\ scan.pc = "done"
    /\ scan.rule = lit_regex_rule
    /\ StartsWith(scan.src, <<Slash>>)
    /\ ClosingSlash(scan.src, 2) # 0

\* C12: lit_regex_m on a text that starts with /body/ returns no match when
\* the body is empty; otherwise it returns a lit_regex token that runs from
\* the opening / through the closing / and one more character exactly when
\* that character is an ASCII letter, span and value alike.
C12_RegexLiteral ==
    RegexLitDone =>
        LET k == ClosingSlash(scan.src, 2)
            flag == k < Len(scan.src) /\ scan.src[k + 1] \in ALPHABET
            e == IF flag THEN k + 1 ELSE k
        IN IF k = 2 THEN scan.res = MNone
           ELSE /\ scan.res.kind = "ok"
                /\ sym2str(interner[1], scan.res.tok.name) = n_lit_regex
                /\ sym2str(interner[1], scan.res.tok.value) = Prefix(scan.src, e)
                /\ scan.res.tok.span = Span(0, ByteLen(Prefix(scan.src, e)))

\* a literal with a one-letter flag has been matched, flag included
C12_Witness ==
    /\ RegexLitDone
    /\ scan.src = <<Slash, "a", Slash, "a">>
    /\ scan.res.kind = "ok"
    /\ scan.res.tok.span = Span(0, 4)

\* position of the last newline of src, or 0
LastNewline(src) ==
    IF \A i \in 1..Len(src) : src[i] # Newline THEN 0
    ELSE Max({i \in 1..Len(src) : src[i] = Newline})

\* the line after the last newline: the closing tag of a block
BlockTag(src) == Suffix(src, LastNewline(src))

\* the lines between the first line and the closing tag
BlockBody(src) == SubSeq(src, NextNewline(src, 0) + 1, LastNewline(src) - 1)

\* src is an opener, blanks, the tag, optionally a blank and more text, a
\* newline, a body no line of which begins with the tag, a newline, the tag
WellFormedBlock(src) ==
    LET nl1 == NextNewline(src, 0)
        first == Prefix(src, nl1 - 1)
        tag == BlockTag(src)
        body == BlockBody(src)
    IN /\ nl1 # 0
       /\ LastNewline(src) > nl1
       /\ tag # <<>>
       /\ \A i \in 1..Len(tag) : tag[i] \notin Blank \cup {"<", "-"}
       /\ \E o \in 1..Len(HeredocOpeners), k \in 0..Len(first) :
             LET head == Len(HeredocOpeners[o]) + k
             IN /\ StartsWith(first, HeredocOpeners[o])
                /\ head + Len(tag) <= Len(first)
                /\ \A i \in (Len(HeredocOpeners[o]) + 1)..head : first[i] \in Blank
                /\ SubSeq(first, head + 1, head + Len(tag)) = tag
                /\ head + Len(tag) < Len(first) => first[head + Len(tag) + 1] \in Blank
       /\ ~StartsWith(body, tag)
       /\ \A i \in 1..Len(body) :
             body[i] = Newline => ~StartsWith(Suffix(body, i), tag)

\* C13: heredoc_m on a well-formed block (opener and tag, newline, body,
\* newline, tag) returns one successful token whose value is exactly the
\* body and whose span covers the whole block; on <<EOF, body, EOF the value
\* is body and the span is the 14 bytes of the block.
C13_HeredocValueIsBody ==
    /\ (scan.pc = "done" /\ scan.rule = heredoc_rule /\ WellFormedBlock(scan.src))
          => /\ scan.res.kind = "ok"
             /\ sym2str(interner[1], scan.res.tok.value) = BlockBody(scan.src)
             /\ scan.res.tok.span = Span(0, ByteLen(scan.src))
    /\ (scan.pc = "done" /\ scan.src = SrcHeredoc)
          => /\ scan.res.kind = "ok"
             /\ sym2str(interner[1], scan.res.tok.value) = <<"b", "o", "d", "y">>
             /\ scan.res.tok.span = Span(0, 14)

C13_Witness ==
    /\ scan.pc = "done"
    /\ scan.src = SrcHeredoc
    /\ WellFormedBlock(scan.src)
    /\ scan.res.kind = "ok"

\* the for loop of tokenize2 on thread t is about to take character c
AtChar(t) == pc[t] = "chars" /\ ci[t] < Len(source[t])

\* the character the for loop of tokenize2 takes next
NextChar(t) == source[t][ci[t] + 1]

\* the table as written has a block for the state named name
Declared(name) == \E i \in 1..Len(dfacfg.table) : dfacfg.table[i].cur = name

\* the declarations of the state named name, in the table as written
DeclsOf(name) ==
    LET k == CHOOSE i \in 1..Len(dfacfg.table) : dfacfg.table[i].cur = name
    IN dfacfg.table[k].trans

\* the declared transitions of the current state of thread t that accept c
DeclHits(t) ==
    IF ~Declared(sym2str(interner[t], dfa_st[t])) THEN {}
    ELSE {i \in 1..Len(DeclsOf(sym2str(interner[t], dfa_st[t]))) :
             NextChar(t) \in DeclsOf(sym2str(interner[t], dfa_st[t]))[i].m}

\* C14: in every step of the DFA the first transition, in declaration order,
\* of the current state whose predicate accepts the character gives both the
\* next state and the boundary flag, also when a later transition of the
\* state accepts the character too.
C14_FirstPredicateWins ==
    [][\A t \in Threads :
        (AtChar(t) /\ DeclHits(t) # {} /\ pc'[t] # "panic")
        => LET first == CHOOSE i \in DeclHits(t) : \A j \in DeclHits(t) : i <= j
               tr == DeclsOf(sym2str(interner[t], dfa_st[t]))[first]
           IN /\ sym2str(interner'[t], dfa_st'[t]) = tr.nxt
              /\ tr.flag <=> Len(tokens'[t]) = Len(tokens[t]) + 1
              /\ ~tr.flag <=> tokens'[t] = tokens[t]]_vars

\* a + taken in Entry, where numsign is declared before op, led to NUM_HEAD
C14_Witness ==
    /\ dfacfg = SignedConfig
    /\ pc[1] = "chars"
    /\ ci[1] = 1
    /\ source[1][1] = "+"
    /\ sym2str(interner[1], dfa_st[1]) = n_NUM_HEAD

\* the declared transition the DFA of thread t takes on the next character
TransTaken(t) ==
    LET first == CHOOSE i \in DeclHits(t) : \A j \in DeclHits(t) : i <= j
    IN DeclsOf(sym2str(interner[t], dfa_st[t]))[first]

\* C15: for each character in source order, a transition with a true flag
\* emits the buffer accumulated before the character as a token, clears the
\* buffer and starts the new buffer with the character; a transition with a
\* false flag emits nothing and appends the character to the buffer; either
\* way the DFA moves to the next state of the transition.
C15_BoundaryEmitsBuffer ==
    [][\A t \in Threads :
        (AtChar(t) /\ DeclHits(t) # {} /\ pc'[t] # "panic")
        => /\ ci'[t] = ci[t] + 1
           /\ sym2str(interner'[t], dfa_st'[t]) = TransTaken(t).nxt
           /\ IF TransTaken(t).flag
              THEN /\ Len(tokens'[t]) = Len(tokens[t]) + 1
                   /\ SubSeq(tokens'[t], 1, Len(tokens[t])) = tokens[t]
                   /\ LET tok == tokens'[t][Len(tokens'[t])]
                      IN /\ sym2str(interner'[t], tok.value) = cache[t]
                         /\ tok.span = Span(bytes_pos[t], bytes_pos[t] + ByteLen(cache[t]))
                         /\ Slice(source[t], tok.span.from, tok.span.end) = cache[t]
                   /\ cache'[t] = <<NextChar(t)>>
              ELSE /\ tokens'[t] = tokens[t]
                   /\ cache'[t] = Append(cache[t], NextChar(t))]_vars

\* the + of 12+34 has just ended the number: 12 is emitted and the buffer
\* holds the +
C15_Witness ==
    /\ source[1] = Src12Plus34
    /\ pc[1] = "chars"
    /\ ci[1] = 3
    /\ Len(tokens[1]) = 1
    /\ sym2str(interner[1], tokens[1][1].value) = <<"1", "2">>
    /\ cache[1] = <<"+">>

\* the name the recognizer declarations give to text: that of the first
\* pattern, in order, matching the first lookhead characters of text
NameByPrefix(text) ==
    LET pre == Prefix(text, Min2(Len(text), dfacfg.rec.lookhead))
        hits == {i \in 1..Len(dfacfg.rec.pats) :
                    IsMatch([anchored |-> dfacfg.rec.pats[i].anchored,
                             items |-> dfacfg.rec.pats[i].items], pre)}
    IN IF hits = {} THEN <<>>
       ELSE dfacfg.rec.pats[CHOOSE i \in hits : \A j \in hits : i <= j].name

\* C16: the name of every token tokenize2 emits is the name of the first
\* recognizer pattern, in order, that matches a prefix of at most lookhead
\* characters of the span's own text; the text before the span has no part
\* in it.
C16_NameFromSpanPrefix ==
    \A t \in Threads :
        pc[t] \in {"chars", "done"} =>
            \A k \in 1..Len(tokens[t]) :
                sym2str(interner[t], tokens[t][k].name) =
                    NameByPrefix(Slice(source[t], tokens[t][k].span.from,
                                       tokens[t][k].span.end))

\* C17: when no predicate of the current state accepts the character, or the
\* state has no transition list, tokenize2 crashes there and returns nothing;
\* tokenize2 never returns an Err value.
C17_UncoveredCharIsFatal ==
    /\ [][\A t \in Threads :
            (AtChar(t) /\ DeclHits(t) = {})
            => (pc'[t] = "panic" /\ result2'[t] = NoResult)]_vars
    /\ [](\A t \in Threads :
            /\ result2[t].kind # "err"
            /\ pc[t] = "panic" => result2[t] = NoResult)

\* the DFA reached OP, a state without a transition list, and crashed on the
\* next character
C17_Witness ==
    /\ dfacfg = PartialConfig
    /\ source[1] = <<"+", "1">>
    /\ result[1].kind = "ok"
    /\ pc[1] = "panic"
    /\ ci[1] = 1
    /\ sym2str(interner[1], dfa_st[1]) = n_OP
    /\ result2[1] = NoResult

\* the lines of a text: the runs of characters between its newlines
RECURSIVE SplitLines(_, _)
SplitLines(text, cur) ==
    IF text = <<>> THEN <<cur>>
    ELSE IF Head(text) = "\n" THEN <<cur>> \o SplitLines(Tail(text), <<>>)
    ELSE SplitLines(Tail(text), Append(cur, Head(text)))

\* the number of the line that holds the character at character offset n
LineNoOf(src, n) == Cardinality({i \in 1..n : src[i] = "\n"}) + 1

\* the character offset at which the line of character offset n starts
LineStartOf(src, n) ==
    IF \A i \in 1..n : src[i] # "\n" THEN 0
    ELSE Max({i \in 1..n : src[i] = "\n"})

\* the line that holds the character at character offset n, without its newline
LineTextOf(src, n) ==
    SplitLines(src, <<>>)[LineNoOf(src, n)]

\* the column of the caret in a rendered text
CaretColumn(text) ==
    LET ls == SplitLines(text, <<>>)
        k == CHOOSE i \in 1..Len(ls) : \E j \in 1..Len(ls[i]) : ls[i][j] = "^"
    IN CHOOSE j \in 1..Len(ls[k]) : ls[k][j] = "^"

\* thread t has formatted the error tokenize returned, or crashed doing so
Formatted(t) == display[t].kind # "none"

\* C18: rendering an error of tokenize completes, the line it prints is the
\* source line that holds the offending character, the line number in the
\* locator is that line's number, and the caret stands in the column of the
\* offending character, also when multi-byte characters precede it.
C18_RenderShowsOffendingLine ==
    \A t \in Threads :
        Formatted(t) =>
            LET n == result[t].start
                ls == SplitLines(display[t].text, <<>>)
            IN /\ display[t].kind = "ok"
               /\ \E i \in 1..Len(ls) : ls[i] = LineTextOf(source[t], n)
               /\ offset2srcloc(source[t], n).ln = LineNoOf(source[t], n)
               /\ CaretColumn(display[t].text) = n - LineStartOf(source[t], n) + 1

\* C19: the rendered text has, one directly after the other, the reason
\* line, one blank line, the source line, the caret line of col - 1 spaces,
\* a caret and dashes to the end of the line, and the locator line, whether
\* or not the offending line ends with a newline in the source.
C19_RenderedLayout ==
    \A t \in Threads :
        display[t].kind = "ok" =>
            LET n == result[t].start
                loc == offset2srcloc(source[t], n)
                line == LineTextOf(source[t], n)
                ls == SplitLines(display[t].text, <<>>)
                want == << <<result[t].reason, ":">>,
                           <<>>,
                           line,
                           Repeat(" ", loc.col - 1) \o <<"^">>
                               \o Repeat("-", Len(line) - loc.col),
                           <<"--> ", ":", ToString(loc.ln), ":", ToString(loc.col)>> >>
            IN \E i \in 1..Len(ls) :
                  i + 4 <= Len(ls) /\ SubSeq(ls, i, i + 4) = want

\* C20: within one thread, a str2sym(s) returns the Symbol an earlier
\* str2sym(s) returned, whatever calls came between, and sym2str of a Symbol
\* str2sym(s) returned is s, at the time and at every later time.
C20_InternIdempotent ==
    /\ \A i, j \in 1..Len(issued) :
          (issued[i].op = "str2sym" /\ issued[j].op = "str2sym"
              /\ issued[i].str = issued[j].str)
          => issued[i].sym = issued[j].sym
    /\ \A i, j \in 1..Len(issued) :
          (i < j /\ issued[i].op = "str2sym" /\ issued[j].op = "sym2str"
              /\ issued[j].sym = issued[i].sym)
          => issued[j].str = issued[i].str
    /\ \A i \in 1..Len(issued) :
          issued[i].op = "str2sym"
          => sym2str(interner[1], issued[i].sym) = issued[i].str

\* a string was interned, two others after it, then the first again, and its
\* Symbol was resolved
C20_Witness ==
    /\ Len(issued) = 4
    /\ issued[1].op = "str2sym"
    /\ issued[2].op = "str2sym"
    /\ issued[3].op = "str2sym"
    /\ issued[4].op = "sym2str"
    /\ issued[1].str = issued[3].str
    /\ issued[2].str # issued[1].str
    /\ issued[4].sym = issued[3].sym
    /\ Len(interner[1]) = 2

\* C21: within one thread the interner is append-only: every Symbol a
\* str2sym call returned still resolves to the string of that call after any
\* later calls, and the Symbols of two calls are equal exactly when their
\* strings are equal.
C21_AppendOnly ==
    /\ \A i \in 1..Len(issued) :
          issued[i].op = "str2sym"
          => /\ issued[i].sym \in 1..Len(interner[1])
             /\ interner[1][issued[i].sym] = issued[i].str
    /\ \A i, j \in 1..Len(issued) :
          (issued[i].op = "str2sym" /\ issued[j].op = "str2sym")
          => ((issued[i].sym = issued[j].sym) <=> (issued[i].str = issued[j].str))

\* three different strings were interned one after the other, then the first
\* one again
C21_Witness ==
    /\ Len(issued) = 4
    /\ \A i \in 1..4 : issued[i].op = "str2sym"
    /\ Cardinality({issued[i].str : i \in 1..3}) = 3
    /\ issued[4].str = issued[1].str
    /\ Len(interner[1]) = 3

\* (line, column) pairs in lexicographic order
LocLeq(a, b) == a.ln < b.ln \/ (a.ln = b.ln /\ a.col <= b.col)

\* the lookups C22 is about: character offsets up to the character length and
\* byte offsets on character boundaries up to the byte length
InRange(l) ==
    \/ l.fn = "offset2srcloc" /\ l.offset <= Len(source[1])
    \/ /\ l.fn = "boffset2srcloc"
       /\ l.offset <= ByteLen(source[1])
       /\ IsCharBoundary(source[1], l.offset)

\* C22: offset2srcloc over character offsets 0..=length and boffset2srcloc
\* over byte offsets on character boundaries are monotonic (a larger offset
\* never maps to a smaller (line, column) pair), and every result has
\* line >= 1 and column >= 1.
C22_LocateMonotonic ==
    /\ \A l \in lookups :
          InRange(l) => ~l.panic /\ l.loc.ln >= 1 /\ l.loc.col >= 1
    /\ \A l, m \in lookups :
          (InRange(l) /\ InRange(m) /\ l.fn = m.fn /\ l.offset <= m.offset)
          => LocLeq(l.loc, m.loc)

\* on a text of two lines with a two-byte character, the byte offset of the
\* end of the first line and the one of the start of the second were looked up
C22_Witness ==
    /\ source[1] = <<EAcute, "\n", "a">>
    /\ \E l, m \in lookups :
          /\ l.fn = "boffset2srcloc" /\ m.fn = "boffset2srcloc"
          /\ l.offset = 2 /\ m.offset = 3
          /\ l.loc = SrcLoc(1, 2) /\ m.loc = SrcLoc(2, 1)

\* C23: for a byte offset b on a character boundary, boffset2srcloc(b) is
\* offset2srcloc(n) for n the number of characters in the first b bytes, so
\* the column of a byte offset counts characters, also after multi-byte
\* characters.
C23_ByteLookupAgrees ==
    \A l, m \in lookups :
        (/\ l.fn = "boffset2srcloc" /\ InRange(l)
         /\ m.fn = "offset2srcloc"
         /\ m.offset = CharsBefore(source[1], l.offset))
        => ~l.panic /\ l.loc = m.loc

\* byte offset 3 and character offset 2 of a line that starts with a two-byte
\* character were looked up, and both are column 3
C23_Witness ==
    /\ source[1] = <<EAcute, "a", "a">>
    /\ \E l, m \in lookups :
          /\ l.fn = "boffset2srcloc" /\ l.offset = 3
          /\ m.fn = "offset2srcloc" /\ m.offset = 2
          /\ l.loc = SrcLoc(1, 3) /\ m.loc = l.loc

\* number of characters before the line that holds character n + 1 of text
LineFirst(text, n) ==
    CHOOSE k \in 0..n :
        /\ k = 0 \/ text[k] = "\n"
        /\ \A j \in (k + 1)..n : text[j] # "\n"

\* position of the last character of the line that holds character n + 1
LineLast(text, n) ==
    CHOOSE k \in (n + 1)..Len(text) :
        /\ k = Len(text) \/ text[k] = "\n"
        /\ \A j \in (n + 1)..(k - 1) : text[j] # "\n"

\* C24: for a byte offset b on a character boundary before the end of the
\* text, linestr(b) is Some line that holds b: it starts after the previous
\* newline (or at 0) and runs through the line's newline (or to the end of
\* the text).
C24_LinestrIsTheLine ==
    \A l \in lookups :
        (/\ l.fn = "linestr"
         /\ l.offset < ByteLen(source[1])
         /\ IsCharBoundary(source[1], l.offset))
        => /\ l.line.kind = "some"
           /\ l.line.str =
                SubSeq(source[1],
                       LineFirst(source[1], CharsBefore(source[1], l.offset)) + 1,
                       LineLast(source[1], CharsBefore(source[1], l.offset)))

\* the line of the newline of the second line was looked up in a text whose
\* first line has a two-byte character
C24_Witness ==
    /\ source[1] = <<EAcute, "\n", "\n">>
    /\ \E l \in lookups :
          /\ l.fn = "linestr" /\ l.offset = 3
          /\ l.line = SomeLine(<<"\n">>)

\* the two-character operators of the prelude and the names of their rules
PreludeOps ==
    {[text |-> <<"=", "=">>, name |-> <<"e", "q">>],
     [text |-> <<"!", "=">>, name |-> <<"n", "e", "q">>],
     [text |-> <<">", "=">>, name |-> <<"g", "e">>],
     [text |-> <<"<", "=">>, name |-> <<"l", "e">>],
     [text |-> <<"-", ">">>, name |-> <<"r", "a", "r", "r", "o", "w">>],
     [text |-> <<"=", ">">>, name |-> <<"r", "d", "a", "r", "r", "o", "w">>],
     [text |-> <<"+", "+">>, name |-> n_inc],
     [text |-> <<"-", "-">>, name |-> <<"d", "e", "c">>]}

\* tokenize with the rules of the prelude has returned one token named name
\* for the two characters of thread t's source
OneTokenNamed(t, name) ==
    /\ result[t].kind = "ok"
    /\ Len(result[t].tokens) = 1
    /\ result[t].tokens[1].span = Span(0, 2)
    /\ sym2str(interner[t], result[t].tokens[1].name) = name

\* C25: in the MATCHERS list of the prelude every two-character operator
\* comes before the rules that match its first character, so that tokenize
\* of an operator's text returns one token of the operator's rule: == is one
\* eq token and != is one neq token.
C25_PreludeNoShadowing ==
    \A op \in PreludeOps :
        (matchers = PreludeRules /\ source[1] = op.text /\ result[1].kind # "none")
        => OneTokenNamed(1, op.name)

\* the program points of tokenize
TokenizePcs == {"start", "while", "for", "tail"}

\* a bound on the steps tokenize has left at program point p with byte
\* cursor b, matcher index m and flag matched: the bytes left to scan count
\* for a whole iteration each, and inside an iteration the matchers left to
\* try count for one step each
Variant(src, p, b, m, matched) ==
    LET left == IF b < ByteLen(src) THEN ByteLen(src) - b ELSE 0
        round == Len(matchers) + 5
    IN CASE p = "start" -> (ByteLen(src) + 1) * round
         [] p = "while" -> left * round + Len(matchers) + 3
         [] p = "for" -> left * round + Len(matchers) + 2 - m
         [] p = "tail" -> IF matched THEN left * round + Len(matchers) + 4 ELSE left * round
         [] OTHER -> 0

VariantNow(t) == Variant(source[t], pc[t], bytes_pos[t], mi[t], tok_matched[t])

\* every step thread t takes inside tokenize lowers the bound, which is never
\* negative: the call takes finitely many steps
TokenizeStepsBounded ==
    /\ [][\A t \in Threads :
             (pc[t] \in TokenizePcs /\ pc'[t] \in TokenizePcs
                 /\ <<pc[t], bytes_pos[t], mi[t], tok_matched[t]>>
                        # <<pc'[t], bytes_pos'[t], mi'[t], tok_matched'[t]>>)
             => Variant(source[t], pc'[t], bytes_pos'[t], mi'[t], tok_matched'[t])
                    < VariantNow(t)]_vars
    /\ [](\A t \in Threads : VariantNow(t) >= 0)

\* the matcher thread t is about to call returns a token
MatcherReturnsToken(t) ==
    /\ AboutToCall(t)
    /\ RuleResult(matchers[RuleAt(t)], TextAt(t), bytes_pos[t]).kind = "ok"

\* thread t ended the iteration with an error returned
ErrorReturned(t) == pc'[t] = "ret" /\ result'[t].kind = "err"

\* thread t goes on with the byte cursor moved forward by at least one byte
CursorAdvanced(t) == pc'[t] = "tail" /\ bytes_pos'[t] >= bytes_pos[t] + 1

\* tokenize returned Ok only with the byte cursor at the end of the source
OkMeansScanned ==
    \A t \in Threads :
        (pc[t] = "ret" /\ result[t].kind = "ok")
        => bytes_pos[t] >= ByteLen(source[t])

RECURSIVE DeclState(_, _)
DeclState(text, k) ==
    IF k = 0 THEN n_Entry
    ELSE LET prev == DeclState(text, k - 1)
             hits == IF Declared(prev)
                     THEN {i \in 1..Len(DeclsOf(prev)) : text[k] \in DeclsOf(prev)[i].m}
                     ELSE {}
         IN IF hits = {} THEN prev
            ELSE DeclsOf(prev)[CHOOSE i \in hits : \A j \in hits : i <= j].nxt

\* the entry items of the built table are the transitions decls as written
SameRow(items, decls) ==
    /\ Len(items) = Len(decls)
    /\ \A i \in 1..Len(items) :
          items[i].m = decls[i].m /\ items[i].res = decls[i].flag

\* C27: a transition table built once on one thread works in tokenize2 on
\* another thread: the entry state LexDFA::new interns on the using thread is
\* a key of the table and selects the transitions declared for the entry
\* state, and every next-state handle the thread takes from the table selects
\* the transitions declared for that state.
C27_SharedTableWorks ==
    \A t \in Threads :
        (pc[t] = "chars" /\ Declared(DeclState(source[t], ci[t])))
        => /\ dfa_st[t] \in DOMAIN dfamap.map
           /\ SameRow(dfamap.map[dfa_st[t]], DeclsOf(DeclState(source[t], ci[t])))

\* thread t is at the start of an iteration of the loop of tokenize, inside
\* one, or has returned an error
InLoopOrFailed(t) ==
    \/ pc[t] \in {"while", "for", "tail"}
    \/ pc[t] = "ret" /\ result[t].kind = "err"

\* C28: at the start of every iteration of the loop of tokenize and at every
\* error return the character cursor is the number of characters in the
\* first bytes_pos bytes of the source, for sources with multi-byte
\* characters too, and the offset of a TokenizeError is this character
\* cursor.
C28_CursorsAgree ==
    \A t \in Threads :
        /\ InLoopOrFailed(t)
              => /\ IsCharBoundary(source[t], bytes_pos[t])
                 /\ chars_pos[t] = CharsBefore(source[t], bytes_pos[t])
        /\ (pc[t] = "ret" /\ result[t].kind = "err")
              => result[t].start = chars_pos[t]

\* an error was returned behind a token with a two-byte character: three
\* characters, four bytes
C28_Witness ==
    /\ source[1] = SrcCommentAccent
    /\ pc[1] = "ret"
    /\ result[1].kind = "err"
    /\ result[1].start = 3
    /\ bytes_pos[1] = 4

\* rest holds the closing delimiter postfix at a place that is not escaped
RECURSIVE HasClosing(_, _, _)
HasClosing(rest, postfix, escape_char) ==
    IF rest = <<>> THEN FALSE
    ELSE IF Head(rest) = escape_char
    THEN Len(rest) >= 2 /\ HasClosing(SubSeq(rest, 3, Len(rest)), postfix, escape_char)
    ELSE IF StartsWith(rest, postfix) THEN TRUE
    ELSE HasClosing(Tail(rest), postfix, escape_char)

\* the call of a matcher built on aux_strlike_m has returned on a text that
\* starts with the prefix and is not closed
UnterminatedScanDone ==
    /\ scan.pc = "done"
    /\ scan.rule.kind = "fn"
    /\ StartsWith(scan.src, scan.rule.prefix)
    /\ ~HasClosing(SubSeq(scan.src, Len(scan.rule.prefix) + 1, Len(scan.src)),
                   scan.rule.postfix, scan.rule.escape_char)

\* C29: on a text that starts with the prefix and has no unescaped closing
\* delimiter before its end, the text that is just the prefix included,
\* aux_strlike_m does not return a successful token.
C29_UnterminatedFails == UnterminatedScanDone => scan.res.kind # "ok"

\* the call of a matcher built on aux_strlike_m has returned a token
TokenScanDone ==
    /\ scan.pc = "done"
    /\ scan.rule.kind = "fn"
    /\ scan.res.kind = "ok"

\* C30: every successful token of aux_strlike_m has a span inside the text it
\* was given that ends on a character boundary: span.end - from is at most
\* the byte length of the text, also when the text ends in the middle of a
\* postfix of several characters or with a multi-byte character.
C30_SpanInsideText ==
    TokenScanDone
    => /\ scan.res.tok.span.from = 0
       /\ scan.res.tok.span.end <= ByteLen(scan.src)
       /\ IsCharBoundary(scan.src, scan.res.tok.span.end)

\* tokenize2 of thread t is in its for loop or has returned
InTokenize2(t) == pc[t] \in {"chars", "done"}

\* the spans of toks are laid end to end from byte 0
Contiguous(toks) ==
    \A k \in 1..Len(toks) :
        toks[k].span.from = (IF k = 1 THEN 0 ELSE toks[k - 1].span.end)

\* C31: at every step of tokenize2, bytes_pos plus the byte length of the
\* buffer is the number of source bytes consumed so far, and the spans of
\* the emitted tokens are contiguous from byte 0: the first starts at 0,
\* each later one starts where the previous one ends, and the last one ends
\* at bytes_pos.
C31_BufferAccountsForBytes ==
    \A t \in Threads :
        InTokenize2(t) =>
            /\ bytes_pos[t] + ByteLen(cache[t]) = ByteLen(Prefix(source[t], ci[t]))
            /\ Contiguous(tokens[t])
            /\ tokens[t] # <<>> => tokens[t][Len(tokens[t])].span.end = bytes_pos[t]

\* 12+34 read to its end: 12 and + are emitted over bytes 0..2 and 2..3, and
\* the buffer holds the two bytes of 34
C31_Witness ==
    /\ source[1] = Src12Plus34
    /\ pc[1] = "chars"
    /\ ci[1] = 5
    /\ Len(tokens[1]) = 2
    /\ tokens[1][2].span = Span(2, 3)
    /\ bytes_pos[1] = 3
    /\ cache[1] = <<"3", "4">>

\* C32: every token emitted by tokenize2 has a span of at least one byte,
\* the first one included: a transition with a true boundary flag taken on
\* the first character of the source does not emit an empty token.
C32_NoEmptyToken ==
    \A t \in Threads :
        InTokenize2(t) =>
            \A k \in 1..Len(tokens[t]) : SpanLen(tokens[t][k].span) >= 1

\* the source of thread t starts with a + that no second + follows
LonePlusFirst(t) ==
    /\ source[t] # <<>>
    /\ source[t][1] = "+"
    /\ Len(source[t]) >= 2 => source[t][2] # "+"

\* C33: with the MATCHERS of the prelude, a + followed by a character other
\* than + yields an add token whose span and value are the single +, and the
\* following character is tokenized as the next token; a + that is the last
\* character of the source is an add token too.
C33_AddIsOnePlus ==
    \A t \in Threads :
        (matchers = PreludeRules /\ LonePlusFirst(t) /\ result[t].kind # "none")
        => /\ result[t].kind = "ok"
           /\ result[t].tokens # <<>>
           /\ sym2str(interner[t], result[t].tokens[1].name) = n_add
           /\ result[t].tokens[1].span = Span(0, 1)
           /\ sym2str(interner[t], result[t].tokens[1].value) = <<"+">>
           /\ Len(source[t]) >= 2 =>
                /\ Len(result[t].tokens) >= 2
                /\ result[t].tokens[2].span.from = 1

\* the name of the rule that produced the k-th token tokenize returned to t
RuleNameOf(t, k) == matchers[tok_rules[t][k]].name

\* the positions of the returned tokens that are no blank and no comment
KeptIdx(t) ==
    {k \in 1..Len(result[t].tokens) :
        \A i \in 1..Len(TrimTargets) : RuleNameOf(t, k) # TrimTargets[i]}

\* C34: trim applied to an Ok token sequence returns the same tokens in the
\* same order with exactly the tokens named newline, sp, sharp_line_comment
\* or slash_line_comment removed and every kept token unchanged; applied to
\* an Err it returns that error unchanged.
C34_TrimDropsBlanksOnly ==
    \A t \in Threads :
        trimmed[t] # NoResult =>
            IF result[t].kind = "ok"
            THEN /\ trimmed[t].kind = "ok"
                 /\ Len(trimmed[t].tokens) = Cardinality(KeptIdx(t))
                 /\ \A k \in KeptIdx(t) :
                        trimmed[t].tokens[Cardinality({j \in KeptIdx(t) : j <= k})]
                            = result[t].tokens[k]
            ELSE trimmed[t] = result[t]

\* the call scanned is one with a postfix of a single character
SinglePostfixScan == scan.pc \in {"loop", "done"} /\ Len(scan.rule.postfix) = 1

\* C35: aux_strlike_m called with a postfix of a single character never
\* returns UnexpectedPostfix, whatever the text: the scan never leaves its
\* loop through the postfix mismatch, so the result lit_regex_m matches on is
\* never a failure and its unreachable arm is never executed.
C35_SinglePostfixNeverFails ==
    /\ SinglePostfixScan =>
          /\ scan.s.out # "err"
          /\ scan.res # MErr(UnexpectedPostfix)
    /\ (scan.pc \in {"loop", "done"} /\ scan.rule.kind = "lit_regex") =>
          StrlikeFinish(interner[1], scan.s, 0, scan.rule.prefix,
                        scan.rule.postfix).res.kind # "err"

\* the scan of /a/a has returned: the a after the closing slash was read in
\* tail mode, differs from the slash, and ended the loop without a failure
C35_Witness ==
    /\ scan.pc = "done"
    /\ scan.rule = lit_regex_rule
    /\ scan.src = <<Slash, "a", Slash, "a">>
    /\ scan.s.st = 2
    /\ scan.s.out = "break"
    /\ scan.res.kind = "ok"

=============================================================================
